---------------------------- MODULE Spec2Model ----------------------------
(***************************************************************************)
(* A model of src/datajud_locar_pipeline_v2.py: the DataJud pipeline that  *)
(* queries each tribunal page by page (buscar_processos), classifies the   *)
(* movements of every hit, merges and deduplicates the records (main) and  *)
(* hands them to the exporters.                                            *)
(*                                                                         *)
(* Representation.  A Python str is a sequence of Unicode code points      *)
(* (112 is "p", 231 is c-cedilla, 227 is a-tilde, ...), so that lower(),   *)
(* upper(), strip(), slicing, concatenation and the `in` substring test    *)
(* are computed rather than assumed.  Python None is the sequence <<-1>>,  *)
(* which is no string.  A JSON object is a record whose DOMAIN holds the   *)
(* keys that are present; dict.get(k, default) is Get.  A date is its      *)
(* proleptic Gregorian ordinal (date.toordinal()), which orders dates as   *)
(* Python does.  An operator for code that may raise gives the name of the *)
(* exception ("TypeError", "AttributeError") in place of the value; the    *)
(* Erro... operators give that name, or "" when nothing is raised.  The    *)
(* case tables and date.fromisoformat are those of Python 3.11.            *)
(*                                                                         *)
(* Exceptions.  Only lines 195-198 (the request) and 408-410 (the PDF) are *)
(* under a try.  An exception raised anywhere else (line 202 on a body of  *)
(* another shape, lines 206-251 on a hit, line 371, an exporter, a print   *)
(* whose text stdout cannot encode or whose bytes the device refuses, the  *)
(* print inside the except clause of line 200 included) leaves main: the   *)
(* run ends with exit status 1 and `erro` holds the name of the exception. *)
(* When the interpreter cannot flush at exit what the run printed, the     *)
(* exit status is 120, however main ended.                                 *)
(***************************************************************************)
EXTENDS Integers, Sequences, FiniteSets, TLC

VARIABLES
  pc,           \* position of the run: see the actions
  args,         \* argparse namespace (main, line 360)
  has_fpdf,     \* _HAS_FPDF (lines 44-49)
  stdout_encoding, \* sys.stdout.encoding, which print() encodes its text in
  stdout_write, \* what becomes of the bytes written to stdout: "ok" when
                \* the device takes them; "raises" when it stops taking
                \* them (a full device, a file at its size limit) and
                \* every print writes through to it; "flush_fails" when
                \* it does not take them all and the prints of the run
                \* stay in the buffer of stdout until the flush at exit
  desde,        \* date filter as an ordinal, or None (lines 363-371)
  ti,           \* index in args.tribunais of the tribunal being queried
  tribunal,     \* normalised code of that tribunal (line 384)
  pagina,       \* loop variable of buscar_processos (line 182)
  resultados,   \* accumulator of buscar_processos (line 180)
  dados,        \* accumulator / final record list of main (line 382)
  requests,     \* every session.post issued, in order, with its outcome
  encontrados,  \* what each buscar_processos call returned, in call order
  warns,        \* the [WARN] lines of buscar_processos (line 200) and of
                \* the PDF export (lines 412, 417)
  sinks,        \* every exporter call that returned, in order, with the
                \* records it was given
  exit_code,    \* -1 while running; once terminated 0, 2 (parser.error),
                \* 1 (sys.exit(1), or an exception nothing catches) or
                \* 120 (the flush of stdout at exit failed)
  movimentos,   \* classifier harness: the movement log being classified
  clas,         \* classifier harness: the classification of that log
  retry,        \* retry harness: the counters of the Retry object mounted
                \* on the session (lines 126-136) during one session.post
  tentativas,   \* retry harness: HTTP attempts made by that session.post
  repetidas,    \* retry harness: the attempt outcomes that were followed
                \* by a further attempt
  resposta,     \* retry harness: what session.post gave, once it ended
  hits_pagina,  \* hit harness: the hits of the page being processed
  pos,          \* hit harness: how many of them the loop has gone through
  erro          \* the exception that ended the run (line 371, a print, a
                \* response body or a hit, an exporter; the flush at exit
                \* when main itself ended without one) or, in the hit
                \* harness, the loop; "" if none

vars == <<pc, args, has_fpdf, stdout_encoding, stdout_write,
                 desde, ti, tribunal, pagina, resultados, dados,
          requests, encontrados, warns, sinks, exit_code, movimentos, clas,
          retry, tentativas, repetidas, resposta, hits_pagina, pos, erro>>

runvars == <<pc, args, has_fpdf, stdout_encoding, stdout_write,
                 desde, ti, tribunal, pagina, resultados,
             dados, requests, encontrados, warns, sinks, exit_code>>

retryvars == <<retry, tentativas, repetidas, resposta>>

hitvars == <<hits_pagina, pos, erro>>

---------------------------------------------------------------------------
(* Python values *)

None == <<-1>>

\* bool(x) of a str-or-None value: None and "" are falsy
Truthy(x) == x # None /\ x # <<>>

\* dict.get(key, default)
Get(d, key, default) == IF key \in DOMAIN d THEN d[key] ELSE default

\* x is None, for an x that may be an object or a list as well as a string
\* (the printed forms are compared: an object has no order with None)
IsNone(x) == ToString(x) = ToString(None)

\* a decoded JSON value that is an array or a number in a place where the
\* code looks for an object: the pair of its Python type and its value (an
\* object is a record and a str a sequence of code points, so that no object
\* and no str is such a pair)
Outro(tipo, valor) == <<tipo, valor>>

IsOutro(x) ==
  /\ ToString(DOMAIN x) = ToString(1..2)
  /\ ToString(x[1]) \in {ToString("list"), ToString("int")}

\* x.get raises AttributeError: x is None, a list or an int
SemGet(x) == IsNone(x) \/ IsOutro(x)

\* str(x), as an f-string formats a field: None is written "None"
Str(x) == IF x = None THEN <<78, 111, 110, 101>> ELSE x

\* x or []
OrEmpty(x) == IF IsNone(x) THEN <<>> ELSE x

\* the sequences of a sequence of sequences, joined end to end
RECURSIVE Concat(_)
Concat(ss) ==
  IF ss = <<>> THEN <<>> ELSE ss[1] \o Concat(Tail(ss))

\* c is one of lo, lo + step, ..., hi of the run r = <<lo, hi, step, delta>>
InRun(c, r) == c >= r[1] /\ c <= r[2] /\ (c - r[1]) % r[3] = 0

\* c plus the delta of its run, c itself when it is in no run
Mapped(c, runs) ==
  LET is == {i \in 1..Len(runs) : InRun(c, runs[i])}
  IN  IF is = {} THEN c ELSE c + runs[CHOOSE i \in is : TRUE][4]

\* c is in one of the ranges <<lo, hi>>
InRanges(c, ranges) ==
  \E i \in 1..Len(ranges) : c >= ranges[i][1] /\ c <= ranges[i][2]

\* str.lower() beyond Latin-1 (Unicode 14.0, the table of Python 3.11): the
\* code points lo, lo + step, ..., hi go to themselves plus delta, as
\* <<lo, hi, step, delta>>
LOWER_RUNS ==
  <<
    <<256, 302, 2, 1>>, <<306, 310, 2, 1>>, <<313, 327, 2, 1>>,
    <<330, 374, 2, 1>>, <<376, 376, 1, -121>>, <<377, 381, 2, 1>>,
    <<385, 385, 1, 210>>, <<386, 388, 2, 1>>, <<390, 390, 1, 206>>,
    <<391, 391, 1, 1>>, <<393, 394, 1, 205>>, <<395, 395, 1, 1>>,
    <<398, 398, 1, 79>>, <<399, 399, 1, 202>>, <<400, 400, 1, 203>>,
    <<401, 401, 1, 1>>, <<403, 403, 1, 205>>, <<404, 404, 1, 207>>,
    <<406, 406, 1, 211>>, <<407, 407, 1, 209>>, <<408, 408, 1, 1>>,
    <<412, 412, 1, 211>>, <<413, 413, 1, 213>>, <<415, 415, 1, 214>>,
    <<416, 420, 2, 1>>, <<422, 422, 1, 218>>, <<423, 423, 1, 1>>,
    <<425, 425, 1, 218>>, <<428, 428, 1, 1>>, <<430, 430, 1, 218>>,
    <<431, 431, 1, 1>>, <<433, 434, 1, 217>>, <<435, 437, 2, 1>>,
    <<439, 439, 1, 219>>, <<440, 440, 1, 1>>, <<444, 444, 1, 1>>,
    <<452, 452, 1, 2>>, <<453, 453, 1, 1>>, <<455, 455, 1, 2>>,
    <<456, 456, 1, 1>>, <<458, 458, 1, 2>>, <<459, 475, 2, 1>>,
    <<478, 494, 2, 1>>, <<497, 497, 1, 2>>, <<498, 500, 2, 1>>,
    <<502, 502, 1, -97>>, <<503, 503, 1, -56>>, <<504, 542, 2, 1>>,
    <<544, 544, 1, -130>>, <<546, 562, 2, 1>>, <<570, 570, 1, 10795>>,
    <<571, 571, 1, 1>>, <<573, 573, 1, -163>>, <<574, 574, 1, 10792>>,
    <<577, 577, 1, 1>>, <<579, 579, 1, -195>>, <<580, 580, 1, 69>>,
    <<581, 581, 1, 71>>, <<582, 590, 2, 1>>, <<880, 882, 2, 1>>,
    <<886, 886, 1, 1>>, <<895, 895, 1, 116>>, <<902, 902, 1, 38>>,
    <<904, 906, 1, 37>>, <<908, 908, 1, 64>>, <<910, 911, 1, 63>>,
    <<913, 929, 1, 32>>, <<931, 939, 1, 32>>, <<975, 975, 1, 8>>,
    <<984, 1006, 2, 1>>, <<1012, 1012, 1, -60>>, <<1015, 1015, 1, 1>>,
    <<1017, 1017, 1, -7>>, <<1018, 1018, 1, 1>>, <<1021, 1023, 1, -130>>,
    <<1024, 1039, 1, 80>>, <<1040, 1071, 1, 32>>, <<1120, 1152, 2, 1>>,
    <<1162, 1214, 2, 1>>, <<1216, 1216, 1, 15>>, <<1217, 1229, 2, 1>>,
    <<1232, 1326, 2, 1>>, <<1329, 1366, 1, 48>>, <<4256, 4293, 1, 7264>>,
    <<4295, 4295, 1, 7264>>, <<4301, 4301, 1, 7264>>,
    <<5024, 5103, 1, 38864>>, <<5104, 5109, 1, 8>>,
    <<7312, 7354, 1, -3008>>, <<7357, 7359, 1, -3008>>,
    <<7680, 7828, 2, 1>>, <<7838, 7838, 1, -7615>>, <<7840, 7934, 2, 1>>,
    <<7944, 7951, 1, -8>>, <<7960, 7965, 1, -8>>, <<7976, 7983, 1, -8>>,
    <<7992, 7999, 1, -8>>, <<8008, 8013, 1, -8>>, <<8025, 8031, 2, -8>>,
    <<8040, 8047, 1, -8>>, <<8072, 8079, 1, -8>>, <<8088, 8095, 1, -8>>,
    <<8104, 8111, 1, -8>>, <<8120, 8121, 1, -8>>, <<8122, 8123, 1, -74>>,
    <<8124, 8124, 1, -9>>, <<8136, 8139, 1, -86>>, <<8140, 8140, 1, -9>>,
    <<8152, 8153, 1, -8>>, <<8154, 8155, 1, -100>>, <<8168, 8169, 1, -8>>,
    <<8170, 8171, 1, -112>>, <<8172, 8172, 1, -7>>, <<8184, 8185, 1, -128>>,
    <<8186, 8187, 1, -126>>, <<8188, 8188, 1, -9>>,
    <<8486, 8486, 1, -7517>>, <<8490, 8490, 1, -8383>>,
    <<8491, 8491, 1, -8262>>, <<8498, 8498, 1, 28>>, <<8544, 8559, 1, 16>>,
    <<8579, 8579, 1, 1>>, <<9398, 9423, 1, 26>>, <<11264, 11311, 1, 48>>,
    <<11360, 11360, 1, 1>>, <<11362, 11362, 1, -10743>>,
    <<11363, 11363, 1, -3814>>, <<11364, 11364, 1, -10727>>,
    <<11367, 11371, 2, 1>>, <<11373, 11373, 1, -10780>>,
    <<11374, 11374, 1, -10749>>, <<11375, 11375, 1, -10783>>,
    <<11376, 11376, 1, -10782>>, <<11378, 11378, 1, 1>>,
    <<11381, 11381, 1, 1>>, <<11390, 11391, 1, -10815>>,
    <<11392, 11490, 2, 1>>, <<11499, 11501, 2, 1>>, <<11506, 11506, 1, 1>>,
    <<42560, 42604, 2, 1>>, <<42624, 42650, 2, 1>>, <<42786, 42798, 2, 1>>,
    <<42802, 42862, 2, 1>>, <<42873, 42875, 2, 1>>,
    <<42877, 42877, 1, -35332>>, <<42878, 42886, 2, 1>>,
    <<42891, 42891, 1, 1>>, <<42893, 42893, 1, -42280>>,
    <<42896, 42898, 2, 1>>, <<42902, 42920, 2, 1>>,
    <<42922, 42922, 1, -42308>>, <<42923, 42923, 1, -42319>>,
    <<42924, 42924, 1, -42315>>, <<42925, 42925, 1, -42305>>,
    <<42926, 42926, 1, -42308>>, <<42928, 42928, 1, -42258>>,
    <<42929, 42929, 1, -42282>>, <<42930, 42930, 1, -42261>>,
    <<42931, 42931, 1, 928>>, <<42932, 42946, 2, 1>>,
    <<42948, 42948, 1, -48>>, <<42949, 42949, 1, -42307>>,
    <<42950, 42950, 1, -35384>>, <<42951, 42953, 2, 1>>,
    <<42960, 42960, 1, 1>>, <<42966, 42968, 2, 1>>, <<42997, 42997, 1, 1>>,
    <<65313, 65338, 1, 32>>, <<66560, 66599, 1, 40>>,
    <<66736, 66771, 1, 40>>, <<66928, 66938, 1, 39>>,
    <<66940, 66954, 1, 39>>, <<66956, 66962, 1, 39>>,
    <<66964, 66965, 1, 39>>, <<68736, 68786, 1, 64>>,
    <<71840, 71871, 1, 32>>, <<93760, 93791, 1, 32>>,
    <<125184, 125217, 1, 34>>
  >>

\* str.upper() beyond Latin-1, one code point to one, as <<lo, hi, step, delta>>
UPPER_RUNS ==
  <<
    <<257, 303, 2, -1>>, <<305, 305, 1, -232>>, <<307, 311, 2, -1>>,
    <<314, 328, 2, -1>>, <<331, 375, 2, -1>>, <<378, 382, 2, -1>>,
    <<383, 383, 1, -300>>, <<384, 384, 1, 195>>, <<387, 389, 2, -1>>,
    <<392, 392, 1, -1>>, <<396, 396, 1, -1>>, <<402, 402, 1, -1>>,
    <<405, 405, 1, 97>>, <<409, 409, 1, -1>>, <<410, 410, 1, 163>>,
    <<414, 414, 1, 130>>, <<417, 421, 2, -1>>, <<424, 424, 1, -1>>,
    <<429, 429, 1, -1>>, <<432, 432, 1, -1>>, <<436, 438, 2, -1>>,
    <<441, 441, 1, -1>>, <<445, 445, 1, -1>>, <<447, 447, 1, 56>>,
    <<453, 453, 1, -1>>, <<454, 454, 1, -2>>, <<456, 456, 1, -1>>,
    <<457, 457, 1, -2>>, <<459, 459, 1, -1>>, <<460, 460, 1, -2>>,
    <<462, 476, 2, -1>>, <<477, 477, 1, -79>>, <<479, 495, 2, -1>>,
    <<498, 498, 1, -1>>, <<499, 499, 1, -2>>, <<501, 501, 1, -1>>,
    <<505, 543, 2, -1>>, <<547, 563, 2, -1>>, <<572, 572, 1, -1>>,
    <<575, 576, 1, 10815>>, <<578, 578, 1, -1>>, <<583, 591, 2, -1>>,
    <<592, 592, 1, 10783>>, <<593, 593, 1, 10780>>, <<594, 594, 1, 10782>>,
    <<595, 595, 1, -210>>, <<596, 596, 1, -206>>, <<598, 599, 1, -205>>,
    <<601, 601, 1, -202>>, <<603, 603, 1, -203>>, <<604, 604, 1, 42319>>,
    <<608, 608, 1, -205>>, <<609, 609, 1, 42315>>, <<611, 611, 1, -207>>,
    <<613, 613, 1, 42280>>, <<614, 614, 1, 42308>>, <<616, 616, 1, -209>>,
    <<617, 617, 1, -211>>, <<618, 618, 1, 42308>>, <<619, 619, 1, 10743>>,
    <<620, 620, 1, 42305>>, <<623, 623, 1, -211>>, <<625, 625, 1, 10749>>,
    <<626, 626, 1, -213>>, <<629, 629, 1, -214>>, <<637, 637, 1, 10727>>,
    <<640, 640, 1, -218>>, <<642, 642, 1, 42307>>, <<643, 643, 1, -218>>,
    <<647, 647, 1, 42282>>, <<648, 648, 1, -218>>, <<649, 649, 1, -69>>,
    <<650, 651, 1, -217>>, <<652, 652, 1, -71>>, <<658, 658, 1, -219>>,
    <<669, 669, 1, 42261>>, <<670, 670, 1, 42258>>, <<837, 837, 1, 84>>,
    <<881, 883, 2, -1>>, <<887, 887, 1, -1>>, <<891, 893, 1, 130>>,
    <<940, 940, 1, -38>>, <<941, 943, 1, -37>>, <<945, 961, 1, -32>>,
    <<962, 962, 1, -31>>, <<963, 971, 1, -32>>, <<972, 972, 1, -64>>,
    <<973, 974, 1, -63>>, <<976, 976, 1, -62>>, <<977, 977, 1, -57>>,
    <<981, 981, 1, -47>>, <<982, 982, 1, -54>>, <<983, 983, 1, -8>>,
    <<985, 1007, 2, -1>>, <<1008, 1008, 1, -86>>, <<1009, 1009, 1, -80>>,
    <<1010, 1010, 1, 7>>, <<1011, 1011, 1, -116>>, <<1013, 1013, 1, -96>>,
    <<1016, 1016, 1, -1>>, <<1019, 1019, 1, -1>>, <<1072, 1103, 1, -32>>,
    <<1104, 1119, 1, -80>>, <<1121, 1153, 2, -1>>, <<1163, 1215, 2, -1>>,
    <<1218, 1230, 2, -1>>, <<1231, 1231, 1, -15>>, <<1233, 1327, 2, -1>>,
    <<1377, 1414, 1, -48>>, <<4304, 4346, 1, 3008>>,
    <<4349, 4351, 1, 3008>>, <<5112, 5117, 1, -8>>,
    <<7296, 7296, 1, -6254>>, <<7297, 7297, 1, -6253>>,
    <<7298, 7298, 1, -6244>>, <<7299, 7300, 1, -6242>>,
    <<7301, 7301, 1, -6243>>, <<7302, 7302, 1, -6236>>,
    <<7303, 7303, 1, -6181>>, <<7304, 7304, 1, 35266>>,
    <<7545, 7545, 1, 35332>>, <<7549, 7549, 1, 3814>>,
    <<7566, 7566, 1, 35384>>, <<7681, 7829, 2, -1>>, <<7835, 7835, 1, -59>>,
    <<7841, 7935, 2, -1>>, <<7936, 7943, 1, 8>>, <<7952, 7957, 1, 8>>,
    <<7968, 7975, 1, 8>>, <<7984, 7991, 1, 8>>, <<8000, 8005, 1, 8>>,
    <<8017, 8023, 2, 8>>, <<8032, 8039, 1, 8>>, <<8048, 8049, 1, 74>>,
    <<8050, 8053, 1, 86>>, <<8054, 8055, 1, 100>>, <<8056, 8057, 1, 128>>,
    <<8058, 8059, 1, 112>>, <<8060, 8061, 1, 126>>, <<8112, 8113, 1, 8>>,
    <<8126, 8126, 1, -7205>>, <<8144, 8145, 1, 8>>, <<8160, 8161, 1, 8>>,
    <<8165, 8165, 1, 7>>, <<8526, 8526, 1, -28>>, <<8560, 8575, 1, -16>>,
    <<8580, 8580, 1, -1>>, <<9424, 9449, 1, -26>>, <<11312, 11359, 1, -48>>,
    <<11361, 11361, 1, -1>>, <<11365, 11365, 1, -10795>>,
    <<11366, 11366, 1, -10792>>, <<11368, 11372, 2, -1>>,
    <<11379, 11379, 1, -1>>, <<11382, 11382, 1, -1>>,
    <<11393, 11491, 2, -1>>, <<11500, 11502, 2, -1>>,
    <<11507, 11507, 1, -1>>, <<11520, 11557, 1, -7264>>,
    <<11559, 11559, 1, -7264>>, <<11565, 11565, 1, -7264>>,
    <<42561, 42605, 2, -1>>, <<42625, 42651, 2, -1>>,
    <<42787, 42799, 2, -1>>, <<42803, 42863, 2, -1>>,
    <<42874, 42876, 2, -1>>, <<42879, 42887, 2, -1>>,
    <<42892, 42892, 1, -1>>, <<42897, 42899, 2, -1>>,
    <<42900, 42900, 1, 48>>, <<42903, 42921, 2, -1>>,
    <<42933, 42947, 2, -1>>, <<42952, 42954, 2, -1>>,
    <<42961, 42961, 1, -1>>, <<42967, 42969, 2, -1>>,
    <<42998, 42998, 1, -1>>, <<43859, 43859, 1, -928>>,
    <<43888, 43967, 1, -38864>>, <<65345, 65370, 1, -32>>,
    <<66600, 66639, 1, -40>>, <<66776, 66811, 1, -40>>,
    <<66967, 66977, 1, -39>>, <<66979, 66993, 1, -39>>,
    <<66995, 67001, 1, -39>>, <<67003, 67004, 1, -39>>,
    <<68800, 68850, 1, -64>>, <<71872, 71903, 1, -32>>,
    <<93792, 93823, 1, -32>>, <<125218, 125251, 1, -34>>
  >>

\* str.upper(), the code points that become two or three: <<c, upper>>
UPPER_MULTI ==
  <<
    <<223, <<83, 83>>>>, <<329, <<700, 78>>>>, <<496, <<74, 780>>>>,
    <<912, <<921, 776, 769>>>>, <<944, <<933, 776, 769>>>>,
    <<1415, <<1333, 1362>>>>, <<7830, <<72, 817>>>>, <<7831, <<84, 776>>>>,
    <<7832, <<87, 778>>>>, <<7833, <<89, 778>>>>, <<7834, <<65, 702>>>>,
    <<8016, <<933, 787>>>>, <<8018, <<933, 787, 768>>>>,
    <<8020, <<933, 787, 769>>>>, <<8022, <<933, 787, 834>>>>,
    <<8064, <<7944, 921>>>>, <<8065, <<7945, 921>>>>,
    <<8066, <<7946, 921>>>>, <<8067, <<7947, 921>>>>,
    <<8068, <<7948, 921>>>>, <<8069, <<7949, 921>>>>,
    <<8070, <<7950, 921>>>>, <<8071, <<7951, 921>>>>,
    <<8072, <<7944, 921>>>>, <<8073, <<7945, 921>>>>,
    <<8074, <<7946, 921>>>>, <<8075, <<7947, 921>>>>,
    <<8076, <<7948, 921>>>>, <<8077, <<7949, 921>>>>,
    <<8078, <<7950, 921>>>>, <<8079, <<7951, 921>>>>,
    <<8080, <<7976, 921>>>>, <<8081, <<7977, 921>>>>,
    <<8082, <<7978, 921>>>>, <<8083, <<7979, 921>>>>,
    <<8084, <<7980, 921>>>>, <<8085, <<7981, 921>>>>,
    <<8086, <<7982, 921>>>>, <<8087, <<7983, 921>>>>,
    <<8088, <<7976, 921>>>>, <<8089, <<7977, 921>>>>,
    <<8090, <<7978, 921>>>>, <<8091, <<7979, 921>>>>,
    <<8092, <<7980, 921>>>>, <<8093, <<7981, 921>>>>,
    <<8094, <<7982, 921>>>>, <<8095, <<7983, 921>>>>,
    <<8096, <<8040, 921>>>>, <<8097, <<8041, 921>>>>,
    <<8098, <<8042, 921>>>>, <<8099, <<8043, 921>>>>,
    <<8100, <<8044, 921>>>>, <<8101, <<8045, 921>>>>,
    <<8102, <<8046, 921>>>>, <<8103, <<8047, 921>>>>,
    <<8104, <<8040, 921>>>>, <<8105, <<8041, 921>>>>,
    <<8106, <<8042, 921>>>>, <<8107, <<8043, 921>>>>,
    <<8108, <<8044, 921>>>>, <<8109, <<8045, 921>>>>,
    <<8110, <<8046, 921>>>>, <<8111, <<8047, 921>>>>,
    <<8114, <<8122, 921>>>>, <<8115, <<913, 921>>>>, <<8116, <<902, 921>>>>,
    <<8118, <<913, 834>>>>, <<8119, <<913, 834, 921>>>>,
    <<8124, <<913, 921>>>>, <<8130, <<8138, 921>>>>, <<8131, <<919, 921>>>>,
    <<8132, <<905, 921>>>>, <<8134, <<919, 834>>>>,
    <<8135, <<919, 834, 921>>>>, <<8140, <<919, 921>>>>,
    <<8146, <<921, 776, 768>>>>, <<8147, <<921, 776, 769>>>>,
    <<8150, <<921, 834>>>>, <<8151, <<921, 776, 834>>>>,
    <<8162, <<933, 776, 768>>>>, <<8163, <<933, 776, 769>>>>,
    <<8164, <<929, 787>>>>, <<8166, <<933, 834>>>>,
    <<8167, <<933, 776, 834>>>>, <<8178, <<8186, 921>>>>,
    <<8179, <<937, 921>>>>, <<8180, <<911, 921>>>>, <<8182, <<937, 834>>>>,
    <<8183, <<937, 834, 921>>>>, <<8188, <<937, 921>>>>,
    <<64256, <<70, 70>>>>, <<64257, <<70, 73>>>>, <<64258, <<70, 76>>>>,
    <<64259, <<70, 70, 73>>>>, <<64260, <<70, 70, 76>>>>,
    <<64261, <<83, 84>>>>, <<64262, <<83, 84>>>>, <<64275, <<1348, 1350>>>>,
    <<64276, <<1348, 1333>>>>, <<64277, <<1348, 1339>>>>,
    <<64278, <<1358, 1350>>>>, <<64279, <<1348, 1341>>>>
  >>

\* the case-ignorable code points, as ranges <<lo, hi>>
CASE_IGNORABLE ==
  <<
    <<39, 39>>, <<46, 46>>, <<58, 58>>, <<94, 94>>, <<96, 96>>,
    <<168, 168>>, <<173, 173>>, <<175, 175>>, <<180, 180>>, <<183, 184>>,
    <<688, 879>>, <<884, 885>>, <<890, 890>>, <<900, 901>>, <<903, 903>>,
    <<1155, 1161>>, <<1369, 1369>>, <<1375, 1375>>, <<1425, 1469>>,
    <<1471, 1471>>, <<1473, 1474>>, <<1476, 1477>>, <<1479, 1479>>,
    <<1524, 1524>>, <<1536, 1541>>, <<1552, 1562>>, <<1564, 1564>>,
    <<1600, 1600>>, <<1611, 1631>>, <<1648, 1648>>, <<1750, 1757>>,
    <<1759, 1768>>, <<1770, 1773>>, <<1807, 1807>>, <<1809, 1809>>,
    <<1840, 1866>>, <<1958, 1968>>, <<2027, 2037>>, <<2042, 2042>>,
    <<2045, 2045>>, <<2070, 2093>>, <<2137, 2139>>, <<2184, 2184>>,
    <<2192, 2193>>, <<2200, 2207>>, <<2249, 2306>>, <<2362, 2362>>,
    <<2364, 2364>>, <<2369, 2376>>, <<2381, 2381>>, <<2385, 2391>>,
    <<2402, 2403>>, <<2417, 2417>>, <<2433, 2433>>, <<2492, 2492>>,
    <<2497, 2500>>, <<2509, 2509>>, <<2530, 2531>>, <<2558, 2558>>,
    <<2561, 2562>>, <<2620, 2620>>, <<2625, 2626>>, <<2631, 2632>>,
    <<2635, 2637>>, <<2641, 2641>>, <<2672, 2673>>, <<2677, 2677>>,
    <<2689, 2690>>, <<2748, 2748>>, <<2753, 2757>>, <<2759, 2760>>,
    <<2765, 2765>>, <<2786, 2787>>, <<2810, 2815>>, <<2817, 2817>>,
    <<2876, 2876>>, <<2879, 2879>>, <<2881, 2884>>, <<2893, 2893>>,
    <<2901, 2902>>, <<2914, 2915>>, <<2946, 2946>>, <<3008, 3008>>,
    <<3021, 3021>>, <<3072, 3072>>, <<3076, 3076>>, <<3132, 3132>>,
    <<3134, 3136>>, <<3142, 3144>>, <<3146, 3149>>, <<3157, 3158>>,
    <<3170, 3171>>, <<3201, 3201>>, <<3260, 3260>>, <<3263, 3263>>,
    <<3270, 3270>>, <<3276, 3277>>, <<3298, 3299>>, <<3328, 3329>>,
    <<3387, 3388>>, <<3393, 3396>>, <<3405, 3405>>, <<3426, 3427>>,
    <<3457, 3457>>, <<3530, 3530>>, <<3538, 3540>>, <<3542, 3542>>,
    <<3633, 3633>>, <<3636, 3642>>, <<3654, 3662>>, <<3761, 3761>>,
    <<3764, 3772>>, <<3782, 3782>>, <<3784, 3789>>, <<3864, 3865>>,
    <<3893, 3893>>, <<3895, 3895>>, <<3897, 3897>>, <<3953, 3966>>,
    <<3968, 3972>>, <<3974, 3975>>, <<3981, 3991>>, <<3993, 4028>>,
    <<4038, 4038>>, <<4141, 4144>>, <<4146, 4151>>, <<4153, 4154>>,
    <<4157, 4158>>, <<4184, 4185>>, <<4190, 4192>>, <<4209, 4212>>,
    <<4226, 4226>>, <<4229, 4230>>, <<4237, 4237>>, <<4253, 4253>>,
    <<4348, 4348>>, <<4957, 4959>>, <<5906, 5908>>, <<5938, 5939>>,
    <<5970, 5971>>, <<6002, 6003>>, <<6068, 6069>>, <<6071, 6077>>,
    <<6086, 6086>>, <<6089, 6099>>, <<6103, 6103>>, <<6109, 6109>>,
    <<6155, 6159>>, <<6211, 6211>>, <<6277, 6278>>, <<6313, 6313>>,
    <<6432, 6434>>, <<6439, 6440>>, <<6450, 6450>>, <<6457, 6459>>,
    <<6679, 6680>>, <<6683, 6683>>, <<6742, 6742>>, <<6744, 6750>>,
    <<6752, 6752>>, <<6754, 6754>>, <<6757, 6764>>, <<6771, 6780>>,
    <<6783, 6783>>, <<6823, 6823>>, <<6832, 6862>>, <<6912, 6915>>,
    <<6964, 6964>>, <<6966, 6970>>, <<6972, 6972>>, <<6978, 6978>>,
    <<7019, 7027>>, <<7040, 7041>>, <<7074, 7077>>, <<7080, 7081>>,
    <<7083, 7085>>, <<7142, 7142>>, <<7144, 7145>>, <<7149, 7149>>,
    <<7151, 7153>>, <<7212, 7219>>, <<7222, 7223>>, <<7288, 7293>>,
    <<7376, 7378>>, <<7380, 7392>>, <<7394, 7400>>, <<7405, 7405>>,
    <<7412, 7412>>, <<7416, 7417>>, <<7468, 7530>>, <<7544, 7544>>,
    <<7579, 7679>>, <<8125, 8125>>, <<8127, 8129>>, <<8141, 8143>>,
    <<8157, 8159>>, <<8173, 8175>>, <<8189, 8190>>, <<8203, 8207>>,
    <<8216, 8217>>, <<8228, 8228>>, <<8231, 8231>>, <<8234, 8238>>,
    <<8288, 8292>>, <<8294, 8303>>, <<8305, 8305>>, <<8319, 8319>>,
    <<8336, 8348>>, <<8400, 8432>>, <<11388, 11389>>, <<11503, 11505>>,
    <<11631, 11631>>, <<11647, 11647>>, <<11744, 11775>>, <<11823, 11823>>,
    <<12293, 12293>>, <<12330, 12333>>, <<12337, 12341>>, <<12347, 12347>>,
    <<12441, 12446>>, <<12540, 12542>>, <<40981, 40981>>, <<42232, 42237>>,
    <<42508, 42508>>, <<42607, 42610>>, <<42612, 42621>>, <<42623, 42623>>,
    <<42652, 42655>>, <<42736, 42737>>, <<42752, 42785>>, <<42864, 42864>>,
    <<42888, 42890>>, <<42994, 42996>>, <<43000, 43001>>, <<43010, 43010>>,
    <<43014, 43014>>, <<43019, 43019>>, <<43045, 43046>>, <<43052, 43052>>,
    <<43204, 43205>>, <<43232, 43249>>, <<43263, 43263>>, <<43302, 43309>>,
    <<43335, 43345>>, <<43392, 43394>>, <<43443, 43443>>, <<43446, 43449>>,
    <<43452, 43453>>, <<43471, 43471>>, <<43493, 43494>>, <<43561, 43566>>,
    <<43569, 43570>>, <<43573, 43574>>, <<43587, 43587>>, <<43596, 43596>>,
    <<43632, 43632>>, <<43644, 43644>>, <<43696, 43696>>, <<43698, 43700>>,
    <<43703, 43704>>, <<43710, 43711>>, <<43713, 43713>>, <<43741, 43741>>,
    <<43756, 43757>>, <<43763, 43764>>, <<43766, 43766>>, <<43867, 43871>>,
    <<43881, 43883>>, <<44005, 44005>>, <<44008, 44008>>, <<44013, 44013>>,
    <<64286, 64286>>, <<64434, 64450>>, <<65024, 65039>>, <<65043, 65043>>,
    <<65056, 65071>>, <<65106, 65106>>, <<65109, 65109>>, <<65279, 65279>>,
    <<65287, 65287>>, <<65294, 65294>>, <<65306, 65306>>, <<65342, 65342>>,
    <<65344, 65344>>, <<65392, 65392>>, <<65438, 65439>>, <<65507, 65507>>,
    <<65529, 65531>>, <<66045, 66045>>, <<66272, 66272>>, <<66422, 66426>>,
    <<67456, 67461>>, <<67463, 67504>>, <<67506, 67514>>, <<68097, 68099>>,
    <<68101, 68102>>, <<68108, 68111>>, <<68152, 68154>>, <<68159, 68159>>,
    <<68325, 68326>>, <<68900, 68903>>, <<69291, 69292>>, <<69446, 69456>>,
    <<69506, 69509>>, <<69633, 69633>>, <<69688, 69702>>, <<69744, 69744>>,
    <<69747, 69748>>, <<69759, 69761>>, <<69811, 69814>>, <<69817, 69818>>,
    <<69821, 69821>>, <<69826, 69826>>, <<69837, 69837>>, <<69888, 69890>>,
    <<69927, 69931>>, <<69933, 69940>>, <<70003, 70003>>, <<70016, 70017>>,
    <<70070, 70078>>, <<70089, 70092>>, <<70095, 70095>>, <<70191, 70193>>,
    <<70196, 70196>>, <<70198, 70199>>, <<70206, 70206>>, <<70367, 70367>>,
    <<70371, 70378>>, <<70400, 70401>>, <<70459, 70460>>, <<70464, 70464>>,
    <<70502, 70508>>, <<70512, 70516>>, <<70712, 70719>>, <<70722, 70724>>,
    <<70726, 70726>>, <<70750, 70750>>, <<70835, 70840>>, <<70842, 70842>>,
    <<70847, 70848>>, <<70850, 70851>>, <<71090, 71093>>, <<71100, 71101>>,
    <<71103, 71104>>, <<71132, 71133>>, <<71219, 71226>>, <<71229, 71229>>,
    <<71231, 71232>>, <<71339, 71339>>, <<71341, 71341>>, <<71344, 71349>>,
    <<71351, 71351>>, <<71453, 71455>>, <<71458, 71461>>, <<71463, 71467>>,
    <<71727, 71735>>, <<71737, 71738>>, <<71995, 71996>>, <<71998, 71998>>,
    <<72003, 72003>>, <<72148, 72151>>, <<72154, 72155>>, <<72160, 72160>>,
    <<72193, 72202>>, <<72243, 72248>>, <<72251, 72254>>, <<72263, 72263>>,
    <<72273, 72278>>, <<72281, 72283>>, <<72330, 72342>>, <<72344, 72345>>,
    <<72752, 72758>>, <<72760, 72765>>, <<72767, 72767>>, <<72850, 72871>>,
    <<72874, 72880>>, <<72882, 72883>>, <<72885, 72886>>, <<73009, 73014>>,
    <<73018, 73018>>, <<73020, 73021>>, <<73023, 73029>>, <<73031, 73031>>,
    <<73104, 73105>>, <<73109, 73109>>, <<73111, 73111>>, <<73459, 73460>>,
    <<78896, 78904>>, <<92912, 92916>>, <<92976, 92982>>, <<92992, 92995>>,
    <<94031, 94031>>, <<94095, 94111>>, <<94176, 94177>>, <<94179, 94180>>,
    <<110576, 110579>>, <<110581, 110587>>, <<110589, 110590>>,
    <<113821, 113822>>, <<113824, 113827>>, <<118528, 118573>>,
    <<118576, 118598>>, <<119143, 119145>>, <<119155, 119170>>,
    <<119173, 119179>>, <<119210, 119213>>, <<119362, 119364>>,
    <<121344, 121398>>, <<121403, 121452>>, <<121461, 121461>>,
    <<121476, 121476>>, <<121499, 121503>>, <<121505, 121519>>,
    <<122880, 122886>>, <<122888, 122904>>, <<122907, 122913>>,
    <<122915, 122916>>, <<122918, 122922>>, <<123184, 123197>>,
    <<123566, 123566>>, <<123628, 123631>>, <<125136, 125142>>,
    <<125252, 125259>>, <<127995, 127999>>, <<917505, 917505>>,
    <<917536, 917631>>, <<917760, 917999>>
  >>

\* the cased code points that are not case-ignorable, as ranges <<lo, hi>>
CASED ==
  <<
    <<65, 90>>, <<97, 122>>, <<170, 170>>, <<181, 181>>, <<186, 186>>,
    <<192, 214>>, <<216, 246>>, <<248, 442>>, <<444, 447>>, <<452, 659>>,
    <<661, 687>>, <<880, 883>>, <<886, 887>>, <<891, 893>>, <<895, 895>>,
    <<902, 902>>, <<904, 906>>, <<908, 908>>, <<910, 929>>, <<931, 1013>>,
    <<1015, 1153>>, <<1162, 1327>>, <<1329, 1366>>, <<1376, 1416>>,
    <<4256, 4293>>, <<4295, 4295>>, <<4301, 4301>>, <<4304, 4346>>,
    <<4349, 4351>>, <<5024, 5109>>, <<5112, 5117>>, <<7296, 7304>>,
    <<7312, 7354>>, <<7357, 7359>>, <<7424, 7467>>, <<7531, 7543>>,
    <<7545, 7578>>, <<7680, 7957>>, <<7960, 7965>>, <<7968, 8005>>,
    <<8008, 8013>>, <<8016, 8023>>, <<8025, 8025>>, <<8027, 8027>>,
    <<8029, 8029>>, <<8031, 8061>>, <<8064, 8116>>, <<8118, 8124>>,
    <<8126, 8126>>, <<8130, 8132>>, <<8134, 8140>>, <<8144, 8147>>,
    <<8150, 8155>>, <<8160, 8172>>, <<8178, 8180>>, <<8182, 8188>>,
    <<8450, 8450>>, <<8455, 8455>>, <<8458, 8467>>, <<8469, 8469>>,
    <<8473, 8477>>, <<8484, 8484>>, <<8486, 8486>>, <<8488, 8488>>,
    <<8490, 8493>>, <<8495, 8500>>, <<8505, 8505>>, <<8508, 8511>>,
    <<8517, 8521>>, <<8526, 8526>>, <<8544, 8575>>, <<8579, 8580>>,
    <<9398, 9449>>, <<11264, 11387>>, <<11390, 11492>>, <<11499, 11502>>,
    <<11506, 11507>>, <<11520, 11557>>, <<11559, 11559>>, <<11565, 11565>>,
    <<42560, 42605>>, <<42624, 42651>>, <<42786, 42863>>, <<42865, 42887>>,
    <<42891, 42894>>, <<42896, 42954>>, <<42960, 42961>>, <<42963, 42963>>,
    <<42965, 42969>>, <<42997, 42998>>, <<43002, 43002>>, <<43824, 43866>>,
    <<43872, 43880>>, <<43888, 43967>>, <<64256, 64262>>, <<64275, 64279>>,
    <<65313, 65338>>, <<65345, 65370>>, <<66560, 66639>>, <<66736, 66771>>,
    <<66776, 66811>>, <<66928, 66938>>, <<66940, 66954>>, <<66956, 66962>>,
    <<66964, 66965>>, <<66967, 66977>>, <<66979, 66993>>, <<66995, 67001>>,
    <<67003, 67004>>, <<68736, 68786>>, <<68800, 68850>>, <<71840, 71903>>,
    <<93760, 93823>>, <<119808, 119892>>, <<119894, 119964>>,
    <<119966, 119967>>, <<119970, 119970>>, <<119973, 119974>>,
    <<119977, 119980>>, <<119982, 119993>>, <<119995, 119995>>,
    <<119997, 120003>>, <<120005, 120069>>, <<120071, 120074>>,
    <<120077, 120084>>, <<120086, 120092>>, <<120094, 120121>>,
    <<120123, 120126>>, <<120128, 120132>>, <<120134, 120134>>,
    <<120138, 120144>>, <<120146, 120485>>, <<120488, 120512>>,
    <<120514, 120538>>, <<120540, 120570>>, <<120572, 120596>>,
    <<120598, 120628>>, <<120630, 120654>>, <<120656, 120686>>,
    <<120688, 120712>>, <<120714, 120744>>, <<120746, 120770>>,
    <<120772, 120779>>, <<122624, 122633>>, <<122635, 122654>>,
    <<125184, 125251>>, <<127280, 127305>>, <<127312, 127337>>,
    <<127344, 127369>>
  >>

\* the lower case of a Latin-1 code point: A-Z and the Latin-1 capitals go
\* 32 up
LowerLatin1(c) ==
  IF (c >= 65 /\ c <= 90) \/ (c >= 192 /\ c <= 222 /\ c # 215)
    THEN c + 32 ELSE c

\* chr(c).lower(); U+0130 becomes two code points; beyond Latin-1 the table
LowerChar(c) ==
  IF c < 256 THEN <<LowerLatin1(c)>>
  ELSE IF c = 304 THEN <<105, 775>> ELSE <<Mapped(c, LOWER_RUNS)>>

\* the code points whose upper case is in Latin-1 too: all of Latin-1 but
\* the micro sign, sharp s and y-diaeresis
UpperInLatin1(c) == c < 256 /\ c # 181 /\ c # 223 /\ c # 255

\* the upper case of such a code point: a-z and the Latin-1 small letters
\* go 32 down
UpperLatin1(c) ==
  IF (c >= 97 /\ c <= 122) \/ (c >= 224 /\ c <= 254 /\ c # 247)
    THEN c - 32 ELSE c

\* chr(c).upper(): the micro sign goes to U+039C, sharp s to SS and
\* y-diaeresis to U+0178; beyond Latin-1 the tables
UpperChar(c) ==
  IF UpperInLatin1(c) THEN <<UpperLatin1(c)>>
    ELSE IF c = 181 THEN <<924>>
    ELSE IF c = 255 THEN <<376>>
    ELSE LET is == {i \in 1..Len(UPPER_MULTI) : UPPER_MULTI[i][1] = c}
         IN  IF is # {} THEN UPPER_MULTI[CHOOSE i \in is : TRUE][2]
             ELSE <<Mapped(c, UPPER_RUNS)>>

\* the capital sigma s[i] is in the Final_Sigma context: the nearest code
\* point before it that is not case-ignorable is cased, and the nearest
\* after it that is not case-ignorable, if there is one, is not cased
FinalSigma(s, i) ==
  LET antes  == {j \in 1..(i - 1) : ~InRanges(s[j], CASE_IGNORABLE)}
      depois == {j \in (i + 1)..Len(s) : ~InRanges(s[j], CASE_IGNORABLE)}
  IN  /\ antes # {}
      /\ InRanges(s[CHOOSE j \in antes : \A k \in antes : k <= j], CASED)
      /\ \/ depois = {}
         \/ ~InRanges(s[CHOOSE j \in depois : \A k \in depois : j <= k], CASED)

\* str.lower(): code point by code point, but a capital sigma becomes the
\* final small sigma U+03C2 in the Final_Sigma context
Lower(s) ==
  IF \A i \in 1..Len(s) : s[i] < 256
    THEN [i \in 1..Len(s) |-> LowerLatin1(s[i])]
    ELSE Concat([i \in 1..Len(s) |->
                   IF s[i] = 931
                     THEN (IF FinalSigma(s, i) THEN <<962>> ELSE <<963>>)
                     ELSE LowerChar(s[i])])

\* str.upper(): code point by code point
Upper(s) ==
  IF \A i \in 1..Len(s) : UpperInLatin1(s[i])
    THEN [i \in 1..Len(s) |-> UpperLatin1(s[i])]
    ELSE Concat([i \in 1..Len(s) |-> UpperChar(s[i])])

\* chr(c).isspace(), the code points str.strip() removes
IsSpace(c) ==
  \/ c \in {9, 10, 11, 12, 13, 28, 29, 30, 31, 32, 133, 160}
  \/ c \in {5760, 8232, 8233, 8239, 8287, 12288}
  \/ (c >= 8192 /\ c <= 8202)

\* str.strip()
Strip(s) ==
  LET keep == {i \in 1..Len(s) : ~IsSpace(s[i])}
  IN  IF keep = {} THEN <<>>
      ELSE LET lo == CHOOSE i \in keep : \A j \in keep : i <= j
               hi == CHOOSE i \in keep : \A j \in keep : j <= i
           IN  SubSeq(s, lo, hi)

\* Python `sub in s` for strings
Contains(sub, s) ==
  \E i \in 1..(Len(s) - Len(sub) + 1) : SubSeq(s, i, i + Len(sub) - 1) = sub

\* the exception sep.join(parts) raises, "" when it raises none: an item
\* that is None is no str
ErroJoin(parts) ==
  IF \E i \in 1..Len(parts) : parts[i] = None THEN "TypeError" ELSE ""

\* sep.join(parts) of a list of str
RECURSIVE JoinStr(_, _)
JoinStr(sep, parts) ==
  IF parts = <<>> THEN <<>>
  ELSE IF Len(parts) = 1 THEN parts[1]
  ELSE parts[1] \o sep \o JoinStr(sep, Tail(parts))

\* sep.join(parts): the joined str, or the exception raised
Join(sep, parts) ==
  IF ErroJoin(parts) # "" THEN ErroJoin(parts) ELSE JoinStr(sep, parts)

\* str(n) of an int n >= 0
RECURSIVE Dec(_)
Dec(n) == IF n < 10 THEN <<48 + n>> ELSE Dec(n \div 10) \o <<48 + (n % 10)>>

\* whether a print of the run finds the device refusing its bytes: never
\* when stdout is written ("ok") or keeps the text in its buffer
\* ("flush_fails"); else the device decides (/dev/full refuses the first
\* byte, a file refuses those past its size limit)
Cheio == IF stdout_write = "raises" THEN BOOLEAN ELSE {FALSE}

\* the exception print(texto) raises, "" when it raises none: sys.stdout
\* encodes the text in its encoding with errors="strict" (ASCII has no
\* character above 127, and UTF-8 encodes every text of the runs
\* considered: none holds a lone surrogate) and then writes the bytes,
\* which raises OSError when the device refuses them (cheio)
ErroPrint(texto, cheio) ==
  IF stdout_encoding = "ascii" /\ \E i \in 1..Len(texto) : texto[i] > 127
    THEN "UnicodeEncodeError"
    ELSE IF cheio THEN "OSError" ELSE ""

---------------------------------------------------------------------------
(* The lines main and buscar_processos print *)

\* line 200, up to the text of the exception:
\* "[WARN] Falha ao consultar {tribunal.upper()} p\u00e1gina {pagina+1}: "
Texto200(up, p) ==
  <<91, 87, 65, 82, 78, 93, 32, 70, 97, 108, 104, 97, 32, 97, 111, 32, 99,
    111, 110, 115, 117, 108, 116, 97, 114, 32>>
    \o up \o <<32, 112, 225, 103, 105, 110, 97, 32>> \o Dec(p + 1) \o <<58, 32>>

\* line 368:
\* "[ERRO] Formato de data inv\u00e1lido em --desde: {args.desde}. Esperado YYYY-MM-DD."
Texto368(d) ==
  <<91, 69, 82, 82, 79, 93, 32, 70, 111, 114, 109, 97, 116, 111, 32, 100, 101,
    32, 100, 97, 116, 97, 32, 105, 110, 118, 225, 108, 105, 100, 111, 32, 101,
    109, 32, 45, 45, 100, 101, 115, 100, 101, 58, 32>>
    \o d \o <<46, 32, 69, 115, 112, 101, 114, 97, 100, 111, 32, 89, 89, 89, 89,
               45, 77, 77, 45, 68, 68, 46>>

\* line 385: "Consultando {tribunal.upper()}..."
Texto385(up) ==
  <<67, 111, 110, 115, 117, 108, 116, 97, 110, 100, 111, 32>> \o up \o <<46, 46, 46>>

\* line 394: "Total de processos/situa\u00e7\u00f5es relevantes: {len(dados)}"
Texto394(n) ==
  <<84, 111, 116, 97, 108, 32, 100, 101, 32, 112, 114, 111, 99, 101, 115, 115,
    111, 115, 47, 115, 105, 116, 117, 97, 231, 245, 101, 115, 32, 114, 101,
    108, 101, 118, 97, 110, 116, 101, 115, 58, 32>> \o Dec(n)

\* lines 399, 402, 405, 410, 415 and 420: "... gerado em: {path}"
TextoGerado(tipo, caminho) ==
  (CASE tipo = "excel" ->
          <<65, 114, 113, 117, 105, 118, 111, 32, 69, 120, 99, 101, 108, 32>>
     [] tipo = "csv" ->
          <<65, 114, 113, 117, 105, 118, 111, 32, 67, 83, 86, 32>>
     [] tipo = "sqlite" ->
          <<66, 97, 110, 99, 111, 32, 100, 101, 32, 100, 97, 100, 111, 115, 32,
            83, 81, 76, 105, 116, 101, 32>>
     [] tipo = "pdf" ->
          <<65, 114, 113, 117, 105, 118, 111, 32, 80, 68, 70, 32>>
     [] OTHER ->
          <<65, 114, 113, 117, 105, 118, 111, 32, 84, 88, 84, 32>>)
    \o <<103, 101, 114, 97, 100, 111, 32, 101, 109, 58, 32>> \o caminho

\* the characters of the str values of a record, which are all that
\* json.dumps(proc, ensure_ascii=False, indent=2), line 425, can write
\* outside ASCII: the keys, the punctuation, null and the digits of
\* qtd_movimentos are ASCII
TextoRegistro(r) ==
  Concat([i \in 1..12 |->
    LET campo == <<"cnj", "tribunal", "grau", "classe", "assunto", "orgao",
                   "status", "partes", "dt_distribuicao", "prazos_relevantes",
                   "resumo_decisao", "fase_execucao">>[i]
    IN  IF r[campo] = None THEN <<>> ELSE r[campo]])

---------------------------------------------------------------------------
(* Keyword lists, lines 63-101 *)

KEYWORDS_PRAZO ==
  <<
    <<112, 114, 97, 122, 111>>,                                   \* prazo
    <<105, 110, 116, 105, 109, 97, 231, 227, 111>>,               \* intimacao
    <<109, 97, 110, 105, 102, 101, 115, 116, 97, 231, 227, 111>>, \* manifestacao
    <<97, 112, 114, 101, 115, 101, 110, 116, 97, 114, 32, 100, 101, 102, 101, 115, 97>>,
    <<97, 112, 114, 101, 115, 101, 110, 116, 97, 114>>,           \* apresentar
    <<99, 111, 110, 116, 101, 115, 116, 97, 231, 227, 111>>,      \* contestacao
    <<99, 111, 110, 116, 114, 97, 114, 114, 97, 231, 245, 101, 115>>,
    <<101, 109, 98, 97, 114, 103, 111, 115>>,                     \* embargos
    <<110, 111, 116, 105, 102, 105, 99, 97, 231, 227, 111>>,      \* notificacao
    <<114, 101, 115, 112, 111, 115, 116, 97>>,                    \* resposta
    <<114, 101, 99, 117, 114, 115, 111>>,                         \* recurso
    <<106, 117, 110, 116, 97, 100, 97, 32, 100, 101, 32, 112, 101, 116, 105, 231, 227, 111>>
  >>

KEYWORDS_DECISAO ==
  <<
    <<115, 101, 110, 116, 101, 110, 231, 97>>,                    \* sentenca
    <<97, 99, 243, 114, 100, 227, 111>>,                          \* acordao
    <<100, 101, 99, 105, 115, 227, 111>>,                         \* decisao
    <<100, 101, 115, 112, 97, 99, 104, 111>>,                     \* despacho
    <<104, 111, 109, 111, 108, 111, 103, 97, 231, 227, 111>>,     \* homologacao
    <<106, 117, 108, 103, 97, 100, 111>>,                         \* julgado
    <<106, 117, 108, 103, 97, 109, 101, 110, 116, 111>>,          \* julgamento
    <<112, 114, 111, 102, 101, 114, 105, 100, 97>>,               \* proferida
    <<100, 101, 102, 101, 114, 105, 100, 97>>,                    \* deferida
    <<105, 110, 100, 101, 102, 101, 114, 105, 100, 97>>           \* indeferida
  >>

KEYWORDS_EXECUCAO ==
  <<
    <<101, 120, 101, 99, 117, 231, 227, 111>>,                    \* execucao
    <<99, 117, 109, 112, 114, 105, 109, 101, 110, 116, 111>>,     \* cumprimento
    <<112, 101, 110, 104, 111, 114, 97>>,                         \* penhora
    <<98, 108, 111, 113, 117, 101, 105, 111>>,                    \* bloqueio
    <<101, 120, 101, 113, 117, 101, 110, 116, 101>>,              \* exequente
    <<101, 120, 101, 113, 117, 105, 100, 111>>,                   \* exequido
    <<101, 120, 112, 101, 100, 105, 231, 227, 111, 32, 100, 101, 32, 97, 108, 118, 97, 114, 225>>,
    <<108, 101, 105, 108, 227, 111>>,                             \* leilao
    <<97, 114, 114, 101, 109, 97, 116, 97, 231, 227, 111>>        \* arrematacao
  >>

---------------------------------------------------------------------------
(* Movement classification, lines 212-233 *)

\* any(keyword in desc for keyword in keywords)
AnyKeyword(desc, keywords) ==
  \E k \in 1..Len(keywords) : Contains(keywords[k], desc)

\* m.get("descricao", "").lower()
DescLower(m) == Lower(Get(m, "descricao", <<>>))

\* f"{timestamp}: {m.get('descricao', '')}", lines 218-219
EntradaPrazo(m) ==
  Str(Get(m, "dataHora", <<>>)) \o <<58, 32>> \o Str(Get(m, "descricao", <<>>))

\* a plausible slip: the entry is dropped when an equal one is already there
RECURSIVE ExtrairPrazosSemRepetir(_)
ExtrairPrazosSemRepetir(movs) ==
  IF movs = <<>> THEN <<>>
  ELSE LET antes == ExtrairPrazosSemRepetir(SubSeq(movs, 1, Len(movs) - 1))
           m == movs[Len(movs)]
       IN  IF AnyKeyword(DescLower(m), KEYWORDS_PRAZO)
              /\ \A i \in 1..Len(antes) : antes[i] # EntradaPrazo(m)
             THEN Append(antes, EntradaPrazo(m))
             ELSE antes

\* the list prazos built by the loop of lines 214-219
RECURSIVE ExtrairPrazos(_)
ExtrairPrazos(movs) ==
  IF movs = <<>> THEN <<>>
  ELSE LET m == Head(movs)
       IN  IF AnyKeyword(DescLower(m), KEYWORDS_PRAZO)
             THEN <<EntradaPrazo(m)>> \o ExtrairPrazos(Tail(movs))
             ELSE ExtrairPrazos(Tail(movs))

\* a plausible slip: the scan runs forward, so the first decision wins
RECURSIVE ResumoDecisaoPrimeira(_)
ResumoDecisaoPrimeira(movs) ==
  IF movs = <<>> THEN <<>>
  ELSE LET m == Head(movs)
       IN  IF AnyKeyword(DescLower(m), KEYWORDS_DECISAO)
             THEN Get(m, "descricao", <<>>)
             ELSE ResumoDecisaoPrimeira(Tail(movs))

\* resumo_decisao: the loop over reversed(movimentos) of lines 222-227
RECURSIVE ResumoDecisao(_)
ResumoDecisao(movs) ==
  IF movs = <<>> THEN <<>>
  ELSE LET m == movs[Len(movs)]
       IN  IF AnyKeyword(DescLower(m), KEYWORDS_DECISAO)
             THEN Get(m, "descricao", <<>>)
             ELSE ResumoDecisao(SubSeq(movs, 1, Len(movs) - 1))

\* a plausible slip: only the latest movement is looked at
FaseExecucaoUltimo(movs) ==
  /\ movs # <<>>
  /\ AnyKeyword(DescLower(movs[Len(movs)]), KEYWORDS_EXECUCAO)

\* fase_execucao: the any(...) of lines 229-233
FaseExecucao(movs) ==
  \E i \in 1..Len(movs) : AnyKeyword(DescLower(movs[i]), KEYWORDS_EXECUCAO)

Sim == <<83, 105, 109>>

Nao == <<78, 227, 111>>

\* the exception lines 215-233 raise on the value of movimentos, "" when
\* they raise none: `for m in movimentos` (line 215) over None is a
\* TypeError; m.get (line 216) on a movement that is None, and .lower() on
\* a descricao that is None, are AttributeErrors
ErroMovimentos(movs) ==
  IF IsNone(movs) THEN "TypeError"
  ELSE IF \E i \in 1..Len(movs) :
            IsNone(movs[i]) \/ Get(movs[i], "descricao", <<>>) = None
    THEN "AttributeError"
    ELSE ""

\* the four classification fields of the record, lines 247-250, for
\* movements on which lines 215-233 raise nothing
CamposClassificacao(movs) ==
  [ qtd_movimentos    |-> Len(movs),
    prazos_relevantes |-> JoinStr(<<10>>, ExtrairPrazos(movs)),
    resumo_decisao    |-> ResumoDecisao(movs),
    fase_execucao     |-> IF FaseExecucao(movs) THEN Sim ELSE Nao ]

\* lines 212-233 and 247-250 on the value of movimentos: the four fields,
\* or the exception raised
Classificar(movs) ==
  IF ErroMovimentos(movs) # "" THEN ErroMovimentos(movs)
  ELSE CamposClassificacao(movs)

---------------------------------------------------------------------------
(* Dates: datetime.date.fromisoformat and parse_date, lines 141-146 and 366 *)

\* Optional[date] that is None; date.min.toordinal() is 1, so 0 is no date
NoDate == 0

IsDigit(c) == c >= 48 /\ c <= 57

\* int() of a run of decimal digits
RECURSIVE Num(_)
Num(s) == IF s = <<>> THEN 0
          ELSE 10 * Num(SubSeq(s, 1, Len(s) - 1)) + (s[Len(s)] - 48)

IsLeap(y) == y % 4 = 0 /\ (y % 100 # 0 \/ y % 400 = 0)

DaysInMonth(y, m) ==
  IF m = 2 THEN (IF IsLeap(y) THEN 29 ELSE 28)
  ELSE IF m \in {4, 6, 9, 11} THEN 30 ELSE 31

RECURSIVE DaysBeforeMonth(_, _)
DaysBeforeMonth(y, m) ==
  IF m = 1 THEN 0 ELSE DaysBeforeMonth(y, m - 1) + DaysInMonth(y, m - 1)

\* date(y, m, d).toordinal()
ToOrdinal(y, m, d) ==
  LET p == y - 1
  IN  p * 365 + p \div 4 - p \div 100 + p \div 400 + DaysBeforeMonth(y, m) + d

\* date(y, 1, 1).weekday() (Monday is 0)
WeekdayJan1(y) == (ToOrdinal(y, 1, 1) + 6) % 7

\* the ordinal of the Monday that starts ISO week 1 of year y
IsoWeek1Monday(y) ==
  LET first_day == ToOrdinal(y, 1, 1)
      first_weekday == WeekdayJan1(y)
  IN  IF first_weekday > 3 THEN first_day - first_weekday + 7
      ELSE first_day - first_weekday

\* date.max.toordinal()
MaxOrdinal == 3652059

\* the ordinal of the ISO week date (y, week, day), NoDate when the week or
\* the day is out of range or the date is outside date.min..date.max
IsoToOrdinal(y, week, day) ==
  LET longo == WeekdayJan1(y) = 3 \/ (WeekdayJan1(y) = 2 /\ IsLeap(y))
      ord == IsoWeek1Monday(y) + (week - 1) * 7 + day - 1
  IN  IF /\ y >= 1
         /\ week >= 1
         /\ week <= 52 \/ (week = 53 /\ longo)
         /\ day >= 1 /\ day <= 7
         /\ ord >= 1 /\ ord <= MaxOrdinal
        THEN ord ELSE NoDate

\* len(s.encode()), the length fromisoformat looks at: one byte for each
\* code point and one more from 128, from 2048 and from 65536 on
Utf8Len(s) ==
  IF \A i \in 1..Len(s) : s[i] < 128 THEN Len(s)
  ELSE Len(s) + Cardinality({i \in 1..Len(s) : s[i] >= 128})
              + Cardinality({i \in 1..Len(s) : s[i] >= 2048})
              + Cardinality({i \in 1..Len(s) : s[i] >= 65536})

\* the i-th character of s, the terminating NUL past its end
At(s, i) == IF i <= Len(s) THEN s[i] ELSE 0

\* s[i..j] is all ASCII digits
Digits(s, i, j) == \A k \in i..j : IsDigit(At(s, k))

\* date.fromisoformat(s) of Python 3.11, NoDate standing for the
\* ValueError.  The string must be 7, 8 or 10 bytes long in UTF-8; it is
\* read from the left as YYYY-MM-DD, YYYYMMDD, YYYY-Www, YYYYWww, YYYY-Www-D
\* or YYYYWwwD, and what follows the last field read is not looked at (so
\* "2018102900" is 2018-10-29).
FromIsoFormat(s) ==
  IF \/ ~Digits(s, 1, 4)
     \/ Utf8Len(s) \notin {7, 8, 10}
     \/ Utf8Len(s) # Len(s) /\ \E i \in 1..Len(s) : s[i] >= 55296 /\ s[i] <= 57343
    THEN NoDate
    ELSE
      LET n == Utf8Len(s)
          y == Num(SubSeq(s, 1, 4))
          sep == IF At(s, 5) = 45 THEN 1 ELSE 0
          p == 5 + sep
      IN  IF At(s, p) = 87
            THEN \* an ISO week date
              IF ~Digits(s, p + 1, p + 2) THEN NoDate
              ELSE LET week == Num(SubSeq(s, p + 1, p + 2))
                       q == p + 3
                   IN  IF q - 1 < n
                         THEN IF sep = 1 /\ At(s, q) # 45 THEN NoDate
                              ELSE IF ~IsDigit(At(s, q + sep)) THEN NoDate
                              ELSE IsoToOrdinal(y, week, At(s, q + sep) - 48)
                         ELSE IsoToOrdinal(y, week, 1)
            ELSE
              IF \/ ~Digits(s, p, p + 1)
                 \/ sep = 1 /\ At(s, p + 2) # 45
                 \/ ~Digits(s, p + 2 + sep, p + 3 + sep)
                THEN NoDate
                ELSE LET m == Num(SubSeq(s, p, p + 1))
                         d == Num(SubSeq(s, p + 2 + sep, p + 3 + sep))
                     IN  IF y >= 1 /\ m >= 1 /\ m <= 12 /\ d >= 1
                            /\ d <= DaysInMonth(y, m)
                           THEN ToOrdinal(y, m, d)
                           ELSE NoDate

\* parse_date: fromisoformat(date_str[:10]); any exception (the TypeError of
\* slicing None included) gives None
parse_date(date_str) ==
  IF date_str = None THEN NoDate
  ELSE FromIsoFormat(SubSeq(date_str, 1, IF Len(date_str) < 10 THEN Len(date_str) ELSE 10))

---------------------------------------------------------------------------
(* Per-hit processing of buscar_processos, lines 206-251 *)

page_size == 100

\* a plausible slip: a hit dated exactly `since` is dropped too
FiltradoInclusive(src, since) ==
  LET dt_dist == parse_date(Get(src, "dataDistribuicao", <<>>))
  IN  since # NoDate /\ dt_dist # NoDate /\ dt_dist <= since

\* the `continue` of lines 209-211: the hit is skipped
Filtrado(src, since) ==
  LET dt_dist == parse_date(Get(src, "dataDistribuicao", <<>>))
  IN  since # NoDate /\ dt_dist # NoDate /\ dt_dist < since

\* f"{parte.get('tipoParte', '')}: {parte.get('nome', '')}", line 243
ParteTxt(parte) ==
  Str(Get(parte, "tipoParte", <<>>)) \o <<58, 32>> \o Str(Get(parte, "nome", <<>>))

\* the exception lines 212-251 raise on the source of a hit that passed
\* the filter, "" when they raise none, in the order the code gets there:
\* the movements (lines 215-233), a None among the subjects (join, line
\* 239; a list that is None is replaced by []), .get on an orgaoJulgador
\* that is None (line 240), the loop over partes that is None (line 242),
\* .get on a party that is None (line 243)
ErroRegistro(src) ==
  LET assuntos == OrEmpty(Get(src, "assuntosProcessuais", <<>>))
      partes == Get(src, "partes", <<>>)
  IN  IF ErroMovimentos(Get(src, "movimentos", <<>>)) # ""
        THEN ErroMovimentos(Get(src, "movimentos", <<>>))
      ELSE IF ErroJoin(assuntos) # "" THEN "TypeError"
      ELSE IF IsNone(Get(src, "orgaoJulgador", <<>>)) THEN "AttributeError"
      ELSE IF IsNone(partes) THEN "TypeError"
      ELSE IF \E i \in 1..Len(partes) : IsNone(partes[i]) THEN "AttributeError"
      ELSE ""

\* the dict appended at lines 234-251, for a source on which lines 212-251
\* raise nothing
RegistroDe(src, trib) ==
  LET c == CamposClassificacao(Get(src, "movimentos", <<>>))
      partes == Get(src, "partes", <<>>)
  IN  [ cnj               |-> Get(src, "numeroProcesso", None),
        tribunal          |-> Upper(trib),
        grau              |-> Get(src, "grau", None),
        classe            |-> Get(src, "classeProcessual", None),
        assunto           |-> JoinStr(<<44, 32>>,
                                OrEmpty(Get(src, "assuntosProcessuais", <<>>))),
        orgao             |-> Get(Get(src, "orgaoJulgador", <<>>), "nomeOrgao", None),
        status            |-> Get(src, "situacaoProcessual", None),
        partes            |-> JoinStr(<<59, 32>>,
                                [i \in 1..Len(partes) |-> ParteTxt(partes[i])]),
        dt_distribuicao   |-> Get(src, "dataDistribuicao", None),
        qtd_movimentos    |-> c.qtd_movimentos,
        prazos_relevantes |-> c.prazos_relevantes,
        resumo_decisao    |-> c.resumo_decisao,
        fase_execucao     |-> c.fase_execucao ]

\* lines 212-251 on the source of a hit that passed the filter: the dict
\* appended, or the exception raised on the way
Registro(src, trib) ==
  IF ErroRegistro(src) # "" THEN ErroRegistro(src) ELSE RegistroDe(src, trib)

\* the exception the loop body of lines 207-251 raises on the hit p, "" when
\* it raises none: .get on a hit or a _source that is None (lines 207-208),
\* nothing for a hit the filter skips, else what the record raises
ErroHit(p, since) ==
  IF IsNone(p) THEN "AttributeError"
  ELSE IF IsNone(Get(p, "_source", <<>>)) THEN "AttributeError"
  ELSE IF Filtrado(Get(p, "_source", <<>>), since) THEN ""
  ELSE ErroRegistro(Get(p, "_source", <<>>))

\* the exception the loop `for p in hits` raises: that of the first hit
\* that raises one
ErroHits(hits, since) ==
  LET ruins == {i \in 1..Len(hits) : ErroHit(hits[i], since) # ""}
  IN  IF ruins = {} THEN ""
      ELSE ErroHit(hits[CHOOSE i \in ruins : \A j \in ruins : i <= j], since)

\* the hits lo..hi of the loop `for p in hits`, lines 206-251, none of which
\* raises: the records appended, in order (the range is halved so that a page of 100 hits is
\* evaluated without deep recursion; the left half is processed first)
RECURSIVE ProcessarFaixa(_, _, _, _, _)
ProcessarFaixa(hits, lo, hi, trib, since) ==
  IF lo > hi THEN <<>>
  ELSE IF lo = hi
    THEN LET src == Get(hits[lo], "_source", <<>>)
         IN  IF Filtrado(src, since) THEN <<>> ELSE <<RegistroDe(src, trib)>>
    ELSE LET mid == (lo + hi) \div 2
         IN  ProcessarFaixa(hits, lo, mid, trib, since)
               \o ProcessarFaixa(hits, mid + 1, hi, trib, since)

\* the loop `for p in hits` of lines 206-251 over a whole page: the
\* records appended, or the exception that ends the loop
ProcessarHits(hits, trib, since) ==
  IF ErroHits(hits, since) # "" THEN ErroHits(hits, since)
  ELSE ProcessarFaixa(hits, 1, Len(hits), trib, since)

\* the exception lines 202-206 raise on the decoded body before any hit is
\* looked at, "" when they raise none: .get on a body, or on a member
\* "hits" of it, that is None, a list or a number (line 202), and the loop
\* over a hits.hits that is a number other than 0 (line 206)
ErroCorpo(data) ==
  IF SemGet(data) THEN "AttributeError"
  ELSE IF SemGet(Get(data, "hits", <<>>)) THEN "AttributeError"
  ELSE IF IsOutro(Get(Get(data, "hits", <<>>), "hits", <<>>))
    THEN LET h == Get(Get(data, "hits", <<>>), "hits", <<>>)
         IN  IF h[1] = "int" /\ h[2] # 0 THEN "TypeError" ELSE ""
  ELSE ""

\* data.get("hits", {}).get("hits", []), line 202: the value, or the
\* exception raised
HitsDe(data) ==
  IF SemGet(data) \/ SemGet(Get(data, "hits", <<>>)) THEN "AttributeError"
  ELSE Get(Get(data, "hits", <<>>), "hits", <<>>)

\* `if not hits`, line 203, of a hits that is a list, None or a number
SemHits(hits) ==
  \/ IsNone(hits)
  \/ IsOutro(hits) /\ hits[1] = "int" /\ hits[2] = 0
  \/ ~IsOutro(hits) /\ hits = <<>>

\* `for pagina in range(max_paginas)`, line 182: p is a value of the loop
InRange(p, max_paginas) == p < max_paginas

\* `if len(hits) < page_size`, line 253
PaginaCurta(hits) == Len(hits) < page_size

\* what the call returns after the `break` of line 201: resultados as it is
AposFalha(res) == res

---------------------------------------------------------------------------
(* Merge and deduplication of main, lines 389-393 *)

\* subset=["cnj", "tribunal"], line 392
Chave(r) == <<r.cnj, r.tribunal>>

\* a plausible slip: keep="last": of the rows with one key the last stays
RECURSIVE UltimasDe(_, _, _)
UltimasDe(rows, lo, hi) ==
  IF lo > hi THEN [seen |-> {}, out |-> <<>>]
  ELSE IF lo = hi THEN [seen |-> {Chave(rows[lo])}, out |-> <<rows[lo]>>]
  ELSE LET mid == (lo + hi) \div 2
       IN  CHOOSE m \in
             { [ seen |-> l.seen \cup r.seen,
                 out  |-> SelectSeq(l.out, LAMBDA x : Chave(x) \notin r.seen) \o r.out ] :
               l \in {UltimasDe(rows, lo, mid)},
               r \in {UltimasDe(rows, mid + 1, hi)} } : TRUE

DropDuplicatesLast(rows) == UltimasDe(rows, 1, Len(rows)).out

\* a plausible slip: a row goes only when the row just before it has its key
RECURSIVE VarrerVizinhos(_, _, _)
VarrerVizinhos(rows, lo, hi) ==
  IF lo > hi THEN <<>>
  ELSE IF lo = hi
    THEN IF lo > 1 /\ Chave(rows[lo - 1]) = Chave(rows[lo]) THEN <<>> ELSE <<rows[lo]>>
    ELSE LET mid == (lo + hi) \div 2
         IN  VarrerVizinhos(rows, lo, mid) \o VarrerVizinhos(rows, mid + 1, hi)

DropDuplicatesAdjacent(rows) == VarrerVizinhos(rows, 1, Len(rows))

\* the rows lo..hi without their duplicates, and the keys seen among them:
\* a row stays when no row before it has its key.  (The range is halved so
\* that long frames are evaluated without deep recursion: the rows that
\* stay in the right half are those whose key is new there and is not seen
\* in the left half.  Each half is bound once, as the one element of a set.)
RECURSIVE PrimeirasDe(_, _, _)
PrimeirasDe(rows, lo, hi) ==
  IF lo > hi THEN [seen |-> {}, out |-> <<>>]
  ELSE IF lo = hi THEN [seen |-> {Chave(rows[lo])}, out |-> <<rows[lo]>>]
  ELSE LET mid == (lo + hi) \div 2
       IN  CHOOSE m \in
             { [ seen |-> l.seen \cup r.seen,
                 out  |-> l.out \o SelectSeq(r.out, LAMBDA x : Chave(x) \notin l.seen) ] :
               l \in {PrimeirasDe(rows, lo, mid)},
               r \in {PrimeirasDe(rows, mid + 1, hi)} } : TRUE

\* DataFrame.drop_duplicates(subset=["cnj", "tribunal"]) with the default
\* keep="first", then to_dict(orient="records").  The columns hold str, None
\* or (qtd_movimentos) int without gaps, which the DataFrame gives back as
\* they went in.
DropDuplicates(rows) == PrimeirasDe(rows, 1, Len(rows)).out

\* lines 390-393: nothing is done to an empty frame
Dedup(rows) == IF rows = <<>> THEN rows ELSE DropDuplicates(rows)

\* os.path.splitext(p)[0]: the extension starts at the last dot of the last
\* path component, leading dots of that component aside
SplitExtRoot(p) ==
  LET seps == {i \in 1..Len(p) : p[i] = 47}
      sep == IF seps = {} THEN 0 ELSE CHOOSE i \in seps : \A j \in seps : j <= i
      dots == {i \in (sep + 1)..Len(p) : p[i] = 46}
      dot == IF dots = {} THEN 0 ELSE CHOOSE i \in dots : \A j \in dots : j <= i
  IN  IF dot > sep /\ \E i \in (sep + 1)..(dot - 1) : p[i] # 46
        THEN SubSeq(p, 1, dot - 1)
        ELSE p

---------------------------------------------------------------------------
(* gerar_dados_teste, lines 310-343 *)

gerar_dados_teste ==
  << [ cnj               |-> <<48, 48, 48, 48, 48, 48, 48, 45, 48, 48, 46, 50, 48, 50, 48, 46, 56, 46, 57, 57, 46, 57, 57, 57, 57>>,
       tribunal          |-> <<84, 74, 88, 88>>,
       grau              |-> <<49>>,
       classe            |-> <<80, 114, 111, 99, 101, 100, 105, 109, 101, 110, 116, 111, 32, 67, 111, 109, 117, 109>>,
       assunto           |-> <<67, 111, 110, 116, 114, 97, 116, 111>>,
       orgao             |-> <<86, 97, 114, 97, 32, 218, 110, 105, 99, 97>>,
       status            |-> <<69, 109, 32, 97, 110, 100, 97, 109, 101, 110, 116, 111>>,
       partes            |-> <<65, 85, 84, 79, 82, 58, 32, 69, 109, 112, 114, 101, 115, 97, 32, 65, 59, 32, 82, 201, 85, 58, 32, 69, 109, 112, 114, 101, 115, 97, 32, 66>>,
       dt_distribuicao   |-> <<50, 48, 50, 48, 45, 48, 49, 45, 48, 49>>,
       qtd_movimentos    |-> 10,
       prazos_relevantes |-> <<50, 48, 50, 48, 45, 48, 50, 45, 48, 49, 84, 48, 48, 58, 48, 48, 58, 48, 48, 90, 58, 32, 73, 110, 116, 105, 109, 97, 231, 227, 111, 32, 112, 97, 114, 97, 32, 109, 97, 110, 105, 102, 101, 115, 116, 97, 231, 227, 111>>,
       resumo_decisao    |-> <<68, 101, 99, 105, 115, 227, 111, 32, 105, 110, 116, 101, 114, 108, 111, 99, 117, 116, 243, 114, 105, 97, 32, 112, 114, 111, 102, 101, 114, 105, 100, 97, 46>>,
       fase_execucao     |-> Nao ],
     [ cnj               |-> <<49, 49, 49, 49, 49, 49, 49, 45, 49, 49, 46, 50, 48, 50, 49, 46, 56, 46, 57, 57, 46, 57, 57, 57, 57>>,
       tribunal          |-> <<84, 74, 89, 89>>,
       grau              |-> <<50>>,
       classe            |-> <<69, 120, 101, 99, 117, 231, 227, 111>>,
       assunto           |-> <<67, 111, 98, 114, 97, 110, 231, 97>>,
       orgao             |-> <<84, 117, 114, 109, 97, 32, 82, 101, 99, 117, 114, 115, 97, 108>>,
       status            |-> <<83, 101, 110, 116, 101, 110, 99, 105, 97, 100, 111>>,
       partes            |-> <<69, 88, 69, 81, 85, 69, 78, 84, 69, 58, 32, 70, 117, 108, 97, 110, 111, 59, 32, 69, 88, 69, 67, 85, 84, 65, 68, 79, 58, 32, 83, 105, 99, 114, 97, 110, 111>>,
       dt_distribuicao   |-> <<50, 48, 50, 49, 45, 48, 53, 45, 49, 48>>,
       qtd_movimentos    |-> 8,
       prazos_relevantes |-> <<>>,
       resumo_decisao    |-> <<83, 101, 110, 116, 101, 110, 231, 97, 32, 100, 101, 32, 109, 233, 114, 105, 116, 111, 46>>,
       fase_execucao     |-> Sim ] >>

---------------------------------------------------------------------------
(* Inputs: the movements, hits, pages and command lines the runs draw from *)

Conclusos == <<67, 111, 110, 99, 108, 117, 115, 111, 115>>

Decisao == <<68, 101, 99, 105, 115, 227, 111>>

SENTENCA_PRAZO == <<83, 69, 78, 84, 69, 78, 199, 65, 32, 80, 82, 65, 90, 79>>

Penhora == <<80, 101, 110, 104, 111, 114, 97>>

Prazo == <<80, 114, 97, 122, 111>>

MovConclusos == [dataHora |-> <<116, 49>>, descricao |-> Conclusos]

MovDecisao == [dataHora |-> <<116, 50>>, descricao |-> Decisao]

MovSentencaPrazo == [dataHora |-> <<116, 51>>, descricao |-> SENTENCA_PRAZO]

MovPenhora == [descricao |-> Penhora]

MovPrazo == [dataHora |-> <<116, 49>>, descricao |-> Prazo]

MovSemDescricao == [dataHora |-> <<116, 52>>]

\* the movements a log is built from: "Conclusos" matches no list,
\* "Decisao" (with a-tilde) the decision list, "SENTENCA PRAZO" (upper case,
\* C-cedilla) the decision and the deadline lists, "Penhora" (no dataHora)
\* the execution list, "Prazo" the deadline list; one has no descricao
MovPool ==
  {MovConclusos, MovDecisao, MovSentencaPrazo, MovPenhora, MovPrazo, MovSemDescricao}

LOCAR == <<76, 79, 67, 65, 82>>

CNPJ == <<49, 50, 51, 52, 53>>

tjpe == <<116, 106, 112, 101>>

\* "TJPE" after a space and before an ideographic space (U+3000)
TJPE_espacos == <<32, 84, 74, 80, 69, 12288>>

tjba == <<116, 106, 98, 97>>

Data20240115 == <<50, 48, 50, 52, 45, 48, 49, 45, 49, 53>>

\* case 0001, distributed 2024-01-15T10:00:00, one decision
Hit1 ==
  [_source |->
    [ numeroProcesso      |-> <<48, 48, 48, 49>>,
      dataDistribuicao    |-> Data20240115 \o <<84, 49, 48, 58, 48, 48, 58, 48, 48>>,
      grau                |-> <<71, 49>>,
      assuntosProcessuais |-> << <<67, 105, 118, 101, 108>> >>,
      orgaoJulgador       |-> [nomeOrgao |-> <<86, 97, 114, 97, 32, 49>>],
      partes              |-> << [tipoParte |-> <<65, 85, 84, 79, 82>>, nome |-> LOCAR] >>,
      movimentos          |-> <<MovConclusos, MovDecisao>> ] ]

\* case 0002, distributed 2023-12-31, in execution
Hit2 ==
  [_source |->
    [ numeroProcesso   |-> <<48, 48, 48, 50>>,
      dataDistribuicao |-> <<50, 48, 50, 51, 45, 49, 50, 45, 51, 49>>,
      movimentos       |-> <<MovPenhora>> ] ]

\* case 0001 again with other content, distributed 2024-02-01
Hit3 ==
  [_source |->
    [ numeroProcesso   |-> <<48, 48, 48, 49>>,
      dataDistribuicao |-> <<50, 48, 50, 52, 45, 48, 50, 45, 48, 49>>,
      movimentos       |-> <<MovPrazo, MovSentencaPrazo>> ] ]

\* case 0003 with the date 29/10/2018, which fromisoformat rejects
Hit4 ==
  [_source |->
    [ numeroProcesso   |-> <<48, 48, 48, 51>>,
      dataDistribuicao |-> <<50, 57, 47, 49, 48, 47, 50, 48, 49, 56>> ] ]

\* case 0002 with no date and no movements
Hit5 == [_source |-> [numeroProcesso |-> <<48, 48, 48, 50>>]]

\* a hit without _source
Hit6 == [_id |-> <<49>>]

\* case 0004 with no date, whose movimentos is null
HitMovimentosNull ==
  [_source |-> [numeroProcesso |-> <<48, 48, 48, 52>>, movimentos |-> None]]

\* case 0006, distributed 2023-12-31, whose movimentos is null
HitAntigoNull ==
  [_source |->
    [ numeroProcesso   |-> <<48, 48, 48, 54>>,
      dataDistribuicao |-> <<50, 48, 50, 51, 45, 49, 50, 45, 51, 49>>,
      movimentos       |-> None ] ]

\* a page of page_size hits repeating `seed`
PaginaCheia(seed) ==
  [i \in 1..page_size |-> seed[((i - 1) % Len(seed)) + 1]]

\* pages with fewer than page_size hits; the loop raises on the last
PaginasCurtas ==
  << <<Hit1>>, <<Hit2, Hit3>>, <<Hit4, Hit5, Hit6>>, <<Hit1, HitMovimentosNull>> >>

\* pages with exactly page_size hits; every hit of the second is older
\* than 2024-01-15 and has null for movimentos, so that the loop raises on
\* it unless the filter skips it
PaginasCheias ==
  << PaginaCheia(<<Hit1, Hit2>>), PaginaCheia(<<HitAntigoNull>>) >>

\* response bodies resp.json() can give, in a list: a body with hits.hits
\* (a list of hits, empty or not, or null), one without the key "hits", and
\* bodies that are JSON but not of the shape line 202 expects: null, [],
\* {"hits": null}, {"hits": []} and {"hits": {"hits": 5}}
Respostas ==
  [i \in 1..(Len(PaginasCurtas) + Len(PaginasCheias)) |->
     [hits |-> [hits |-> (PaginasCurtas \o PaginasCheias)[i]]]]
    \o << [hits |-> [hits |-> <<>>]], [hits |-> [hits |-> None]], [took |-> 1] >>
    \o << None, Outro("list", <<>>), [hits |-> None], [hits |-> Outro("list", <<>>)],
          [hits |-> [hits |-> Outro("int", 5)]] >>

\* where the try block of lines 195-198 can raise: session.post (connection
\* failure, retries exhausted), raise_for_status (HTTP error status),
\* resp.json (body that is no JSON)
Falhas == {"post", "raise_for_status", "json"}

\* date.today()
Hoje == ToOrdinal(2024, 2, 14)

MaxPaginas == 2

SemSaidas == [excel |-> None, csv |-> None, sqlite |-> None, pdf |-> None, no_pdf |-> FALSE]

Saidas ==
  [ excel  : {None, <<111, 46, 120, 108, 115, 120>>},
    csv    : {None, <<111, 46, 99, 115, 118>>},
    sqlite : {None, <<111, 46, 100, 98>>},
    pdf    : {None, <<97, 46, 112, 100, 102>>},
    no_pdf : BOOLEAN ]

MkArgs(nome, cnpj, tribunais, max_paginas, d, since_days, s, selftest) ==
  [ nome |-> nome, cnpj |-> cnpj, tribunais |-> tribunais,
    max_paginas |-> max_paginas, desde |-> d, since_days |-> since_days,
    excel |-> s.excel, csv |-> s.csv, sqlite |-> s.sqlite, pdf |-> s.pdf,
    no_pdf |-> s.no_pdf, selftest |-> selftest ]

\* command lines that exercise the queries: one or two tribunals with every
\* page ceiling up to MaxPaginas, and three tribunals with one page each
ArgsConsulta ==
  { MkArgs(LOCAR, CNPJ, t, m, d, 0, SemSaidas, FALSE) :
      t \in { <<tjpe>>, <<tjpe, tjba>>, <<tjpe, TJPE_espacos>> },
      m \in 0..MaxPaginas,
      d \in {None, Data20240115} }
  \cup
  { MkArgs(LOCAR, CNPJ, <<tjba, tjpe, TJPE_espacos>>, 1, d, 0, SemSaidas, FALSE) :
      d \in {None, Data20240115} }

\* command lines that exercise the options: present, empty and absent
\* values, a valid, an invalid and an empty --desde, --since-days (0 stands
\* for an absent or zero value, which line 370 treats alike), every
\* combination of outputs, with and without --selftest
ArgsCli ==
  { MkArgs(n, c, t, 1, d, sd, s, st) :
      n \in {None, LOCAR},
      c \in {<<>>, CNPJ},
      t \in { <<>>, <<tjpe>> },
      d \in {None, <<>>, Data20240115, <<50, 48, 50, 52, 45, 49, 51, 45, 48, 49>>},
      sd \in {0, 30},
      s \in Saidas,
      st \in BOOLEAN }

\* command lines that exercise --since-days: the day that gives 0001-01-01,
\* the day before it and a day after 9999-12-31, with and without --desde
\* (which takes precedence) and --selftest
ArgsDias ==
  { MkArgs(LOCAR, CNPJ, <<tjpe>>, 1, d, sd, SemSaidas, st) :
      d \in {None, Data20240115},
      sd \in {738929, 738930, -2913130},
      st \in BOOLEAN }

\* command lines run with a stdout other than a writable UTF-8 one (an
\* ASCII stdout, PYTHONIOENCODING=ascii; a full device or a file at its
\* size limit, written through, python -u, or buffered): with and without
\* --selftest, a valid and an invalid --desde, no output, one output and
\* two, with and without --no-pdf, no page and one page, a code typed with
\* an accent ("tjp\u00e9")
ArgsStdout ==
  { MkArgs(LOCAR, CNPJ, t, m, d, 0, s, st) :
      t \in { <<tjpe, tjba>>, << <<116, 106, 112, 233>> >> },
      m \in {0, 1},
      d \in {None, <<50, 48, 50, 52, 45, 49, 51, 45, 48, 49>>},
      s \in {x \in Saidas : x.excel = None /\ x.sqlite = None},
      st \in BOOLEAN }

---------------------------------------------------------------------------
(* The retry policy of create_session, lines 104-138 *)

\* the default of the parameter max_retries, line 104
max_retries == 5

\* status_forcelist, line 131
status_forcelist == {429, 500, 502, 503, 504}

\* the statuses whose Retry-After header Retry honours; line 126 leaves
\* respect_retry_after_header at its default, True
RETRY_AFTER_STATUS_CODES == {413, 429, 503}

\* Retry(total=max_retries, read=max_retries, connect=max_retries, ...),
\* lines 126-134: each counter is the number of retries still allowed
RetryInicial ==
  [total |-> max_retries, read |-> max_retries, connect |-> max_retries]

\* Retry.increment: every retry takes one from total, and a connect or a
\* read error one from its own counter too (no status counter is set)
Increment(r, causa) ==
  [ total   |-> r.total - 1,
    read    |-> IF causa = "read" THEN r.read - 1 ELSE r.read,
    connect |-> IF causa = "connect" THEN r.connect - 1 ELSE r.connect ]

\* Retry.is_exhausted: a counter went below zero
IsExhausted(r) == r.total < 0 \/ r.read < 0 \/ r.connect < 0

\* Retry.is_retry for a POST (an allowed method, line 132): the status is
\* in the forcelist or, while total is not 0, the response carries
\* Retry-After and its status is one that honours it
IsRetry(r, status, retry_after) ==
  \/ status \in status_forcelist
  \/ r.total # 0 /\ retry_after /\ status \in RETRY_AFTER_STATUS_CODES

\* no page is being processed
SemPagina ==
  /\ hits_pagina = <<>>
  /\ pos = 0
  /\ erro = ""

\* session.post has not returned
Pendente == [tipo |-> "pendente", status |-> 0]

\* no session.post is under way
SemPedido ==
  /\ retry = RetryInicial
  /\ tentativas = 0
  /\ repetidas = {}
  /\ resposta = Pendente

---------------------------------------------------------------------------
(* The run: main, lines 346-425, with buscar_processos, lines 179-255 *)

Init ==
  /\ \/ /\ args \in ArgsConsulta \cup ArgsDias /\ has_fpdf = TRUE
        /\ stdout_encoding = "utf-8" /\ stdout_write = "ok"
     \/ /\ args \in ArgsCli /\ has_fpdf \in BOOLEAN
        /\ stdout_encoding = "utf-8" /\ stdout_write = "ok"
     \/ /\ args \in ArgsStdout /\ has_fpdf \in BOOLEAN
        /\ \/ stdout_encoding = "ascii" /\ stdout_write = "ok"
           \/ stdout_encoding = "utf-8" /\ stdout_write \in {"raises", "flush_fails"}
  /\ pc = "desde"
  /\ desde = NoDate
  /\ ti = 0
  /\ tribunal = <<>>
  /\ pagina = 0
  /\ resultados = <<>>
  /\ dados = <<>>
  /\ requests = <<>>
  /\ encontrados = <<>>
  /\ warns = <<>>
  /\ sinks = <<>>
  /\ exit_code = -1
  /\ movimentos = <<>>
  /\ clas = Classificar(<<>>)
  /\ SemPedido
  /\ SemPagina

\* the process ends, main having ended with the exception e (an exception
\* that nothing catches leaves main with a traceback, status 1; sys.exit
\* raises SystemExit, which is no error: e = "") or having returned
\* (e = "", status 0).  The interpreter then flushes stdout: when the run
\* has printed (impresso) to a stdout that kept the text in its buffer and
\* whose device refuses it, the flush raises OSError, the text was not
\* written in full and the exit status is 120 whatever it was to be
Terminar(e, status, impresso) ==
  /\ erro' = IF e = "" /\ stdout_write = "flush_fails" /\ impresso THEN "OSError" ELSE e
  /\ pc' = "fim"
  /\ exit_code' = IF stdout_write = "flush_fails" /\ impresso THEN 120 ELSE status

\* lines 364-369: --desde is given and is no ISO date: the message is
\* printed and sys.exit(1) ends the run; when print raises, its exception
\* ends the run instead, with exit status 1 too
DesdeInvalida ==
  /\ pc = "desde"
  /\ Truthy(args.desde)
  /\ FromIsoFormat(args.desde) = NoDate
  /\ \E cheio \in Cheio :
       \E e \in {ErroPrint(Texto368(args.desde), cheio)} : Terminar(e, 1, e = "")
  /\ UNCHANGED <<args, has_fpdf, stdout_encoding, stdout_write,
                 desde, ti, tribunal, pagina, resultados, dados,
                 requests, encontrados, warns, sinks, movimentos, clas, retryvars,
                 hits_pagina, pos>>

\* line 371: date.today() - timedelta(days=since_days) as an ordinal
DiasAtras == Hoje - args.since_days

\* line 371 is reached and raises OverflowError: the date is before year 1
\* or after year 9999 (so does timedelta itself beyond 999999999 days)
ErroDiasAtras ==
  IF ~Truthy(args.desde) /\ args.since_days # 0
       /\ (DiasAtras < 1 \/ DiasAtras > MaxOrdinal)
    THEN "OverflowError" ELSE ""

\* line 371 raises: nothing catches the exception, exit status 1
DiasAtrasLevanta ==
  /\ pc = "desde"
  /\ ErroDiasAtras # ""
  /\ erro' = ErroDiasAtras
  /\ pc' = "fim"
  /\ exit_code' = 1
  /\ UNCHANGED <<args, has_fpdf, stdout_encoding, stdout_write,
                 desde, ti, tribunal, pagina, resultados, dados,
                 requests, encontrados, warns, sinks, movimentos, clas, retryvars,
                 hits_pagina, pos>>

\* lines 363-371: the date filter from --desde, else from --since-days
DeterminarDesde ==
  /\ pc = "desde"
  /\ Truthy(args.desde) => FromIsoFormat(args.desde) # NoDate
  /\ ErroDiasAtras = ""
  /\ desde' = IF Truthy(args.desde) THEN FromIsoFormat(args.desde)
              ELSE IF args.since_days # 0 THEN DiasAtras
              ELSE NoDate
  /\ pc' = "modo"
  /\ UNCHANGED <<args, has_fpdf, stdout_encoding, stdout_write,
                 ti, tribunal, pagina, resultados, dados,
                 requests, encontrados, warns, sinks, exit_code, movimentos, clas, retryvars, hitvars>>

\* a plausible slip: --selftest is honoured only when the query arguments
\* are missing
SelfTestSoSemArgs ==
  /\ pc = "modo"
  /\ args.selftest
  /\ IF Truthy(args.nome) /\ Truthy(args.cnpj) /\ args.tribunais # <<>>
       THEN dados' = <<>> /\ ti' = 1 /\ pc' = "tribunais"
       ELSE dados' = gerar_dados_teste /\ ti' = ti /\ pc' = "export"
  /\ UNCHANGED <<args, has_fpdf, stdout_encoding, stdout_write,
                 desde, tribunal, pagina, resultados,
                 requests, encontrados, warns, sinks, exit_code, movimentos, clas, retryvars, hitvars>>

\* lines 373-374: --selftest takes the fixed records and goes to the exports
SelfTest ==
  /\ pc = "modo"
  /\ args.selftest
  /\ dados' = gerar_dados_teste
  /\ pc' = "export"
  /\ UNCHANGED <<args, has_fpdf, stdout_encoding, stdout_write,
                 desde, ti, tribunal, pagina, resultados,
                 requests, encontrados, warns, sinks, exit_code, movimentos, clas, retryvars, hitvars>>

ArgsObrigatorios ==
  Truthy(args.nome) /\ Truthy(args.cnpj) /\ args.tribunais # <<>>

\* lines 377-378: parser.error exits with status 2
ArgsInvalidos ==
  /\ pc = "modo"
  /\ ~args.selftest
  /\ ~ArgsObrigatorios
  /\ pc' = "fim"
  /\ exit_code' = 2
  /\ UNCHANGED <<args, has_fpdf, stdout_encoding, stdout_write,
                 desde, ti, tribunal, pagina, resultados, dados,
                 requests, encontrados, warns, sinks, movimentos, clas, retryvars, hitvars>>

\* lines 379-382: the session is created and the tribunal loop begins
IniciarConsulta ==
  /\ pc = "modo"
  /\ ~args.selftest
  /\ ArgsObrigatorios
  /\ dados' = <<>>
  /\ ti' = 1
  /\ pc' = "tribunais"
  /\ UNCHANGED <<args, has_fpdf, stdout_encoding, stdout_write,
                 desde, tribunal, pagina, resultados,
                 requests, encontrados, warns, sinks, exit_code, movimentos, clas, retryvars, hitvars>>

\* a plausible slip: the records of a call are put in front of dados
RetornarNaFrente(res, falhou) ==
  /\ encontrados' = Append(encontrados, res)
  /\ \E cheio \in Cheio :
       \E e \in {ErroPrint(<<32, 32, 62, 32>> \o Dec(Len(res))
                            \o <<32, 112, 114, 111, 99, 101, 115, 115, 111, 115, 32, 101,
                                 110, 99, 111, 110, 116, 114, 97, 100, 111, 115>>, cheio)} :
         IF e # ""
           THEN /\ Terminar(e, 1, TRUE)
                /\ UNCHANGED <<dados, resultados, pagina, ti>>
           ELSE /\ dados' = res \o dados
                /\ resultados' = <<>>
                /\ pagina' = 0
                /\ ti' = ti + 1
                /\ pc' = "tribunais"
                /\ UNCHANGED <<exit_code, erro>>

\* line 255 and lines 386-388: buscar_processos returns res, main prints
\* the count (line 387: "  > {len(encontrados)} processos encontrados"),
\* extends dados with res and goes on to the next tribunal of the list
\* (line 383), whether or not the call ended on a failed request (falhou);
\* when the print raises, the run ends there, before dados is extended
Retornar(res, falhou) ==
  /\ encontrados' = Append(encontrados, res)
  /\ \E cheio \in Cheio :
       \E e \in {ErroPrint(<<32, 32, 62, 32>> \o Dec(Len(res))
                            \o <<32, 112, 114, 111, 99, 101, 115, 115, 111, 115, 32, 101,
                                 110, 99, 111, 110, 116, 114, 97, 100, 111, 115>>, cheio)} :
         IF e # ""
           THEN /\ Terminar(e, 1, TRUE)
                /\ UNCHANGED <<dados, resultados, pagina, ti>>
           ELSE /\ dados' = dados \o res
                /\ resultados' = <<>>
                /\ pagina' = 0
                /\ ti' = ti + 1
                /\ pc' = "tribunais"
                /\ UNCHANGED <<exit_code, erro>>

\* a plausible slip: the code is lower-cased but keeps its whitespace
NormalizarSemStrip(t) == Lower(t)

\* line 384: tribunal.lower().strip(); the lower-cased text is one value,
\* computed once, that strip() then works on
Normalizar(t) == CHOOSE r \in {Strip(l) : l \in {Lower(t)}} : TRUE

\* lines 383-386 and 179-182: the next tribunal is normalised, its code is
\* printed (line 385; the run ends there when print raises) and
\* buscar_processos is entered; with an empty range it returns at once
ProximoTribunal ==
  /\ pc = "tribunais"
  /\ ti <= Len(args.tribunais)
  /\ \E t \in {Normalizar(args.tribunais[ti])} :
       /\ tribunal' = t
       /\ \E cheio \in Cheio : \E e \in {ErroPrint(Texto385(Upper(t)), cheio)} :
            IF e # ""
              THEN /\ Terminar(e, 1, ti > 1)
                   /\ UNCHANGED <<ti, pagina, resultados, dados, encontrados>>
              ELSE IF InRange(0, args.max_paginas)
                THEN /\ pc' = "pagina"
                     /\ pagina' = 0
                     /\ resultados' = <<>>
                     /\ UNCHANGED <<ti, dados, encontrados, exit_code, erro>>
                ELSE Retornar(<<>>, FALSE)
  /\ UNCHANGED <<args, has_fpdf, stdout_encoding, stdout_write,
                 desde, requests, warns, sinks,
                 movimentos, clas, retryvars, hits_pagina, pos>>

\* a plausible slip: "from" is the page number, not the offset of the page
PedidoPorNumero(resultado, hits) ==
  [ ti |-> ti, endpoint |-> tribunal, from |-> pagina,
    size |-> page_size, resultado |-> resultado, hits |-> hits ]

\* the request of lines 179-196 with what came of it: "ok" with the hits of
\* the body, or the place of the failure (and then no hits)
Pedido(resultado, hits) ==
  [ ti |-> ti, endpoint |-> tribunal, from |-> pagina * page_size,
    size |-> page_size, resultado |-> resultado, hits |-> hits ]

\* lines 183-201: the request of this page fails; the except clause prints
\* the warning and breaks, and the call returns what it has.  When the print
\* of line 200 raises, that exception leaves the except clause,
\* buscar_processos and main
PaginaFalha ==
  /\ pc = "pagina"
  /\ \E f \in Falhas : requests' = Append(requests, Pedido(f, <<>>))
  /\ \E cheio \in Cheio : \E e \in {ErroPrint(Texto200(Upper(tribunal), pagina), cheio)} :
       IF e # ""
         THEN /\ Terminar(e, 1, TRUE)
              /\ UNCHANGED <<ti, pagina, resultados, dados, encontrados, warns>>
         ELSE /\ warns' = Append(warns, [tribunal |-> Upper(tribunal), pagina |-> pagina + 1])
              /\ Retornar(AposFalha(resultados), TRUE)
  /\ UNCHANGED <<args, has_fpdf, stdout_encoding, stdout_write,
                 desde, tribunal, sinks, movimentos,
                 clas, retryvars, hits_pagina, pos>>

\* lines 183-202 and 206: the request succeeds with a body that is JSON but
\* on which line 202 (outside the try) or the head of the loop of line 206
\* raises: the exception leaves buscar_processos and main
CorpoLevanta ==
  /\ pc = "pagina"
  /\ \E n \in 1..Len(Respostas) :
       /\ ErroCorpo(Respostas[n]) # ""
       /\ Terminar(ErroCorpo(Respostas[n]), 1, TRUE)
  /\ requests' = Append(requests, Pedido("corpo", <<>>))
  /\ UNCHANGED <<args, has_fpdf, stdout_encoding, stdout_write,
                 desde, ti, tribunal, pagina, resultados,
                 dados, encontrados, warns, sinks, movimentos, clas, retryvars,
                 hits_pagina, pos>>

\* lines 183-205: the page arrives with no hit; break
PaginaVazia ==
  /\ pc = "pagina"
  /\ \E n \in 1..Len(Respostas) :
       /\ ErroCorpo(Respostas[n]) = ""
       /\ SemHits(HitsDe(Respostas[n]))
       /\ requests' = Append(requests, Pedido("ok", <<>>))
  /\ Retornar(resultados, FALSE)
  /\ UNCHANGED <<args, has_fpdf, stdout_encoding, stdout_write,
                 desde, tribunal, warns, sinks,
                 movimentos, clas, retryvars, hits_pagina, pos>>

\* lines 183-254: the page arrives with hits, which are processed in order.
\* When the loop body raises on a hit (lines 207-251, under no try), the
\* exception leaves buscar_processos and main, and with them the records
\* the call had accumulated.  Else the loop goes on only after a full page
\* and while the range lasts
PaginaComHits ==
  /\ pc = "pagina"
  /\ \E n \in 1..Len(Respostas) :
       /\ ErroCorpo(Respostas[n]) = ""
       /\ ~SemHits(HitsDe(Respostas[n]))
       /\ LET hits == HitsDe(Respostas[n])
          IN  /\ requests' = Append(requests, Pedido("ok", hits))
              /\ IF ErroHits(hits, desde) # ""
                   THEN /\ Terminar(ErroHits(hits, desde), 1, TRUE)
                        /\ UNCHANGED <<ti, pagina, resultados, dados, encontrados>>
                   ELSE LET res == resultados
                                     \o ProcessarFaixa(hits, 1, Len(hits), tribunal, desde)
                        IN  IF PaginaCurta(hits) \/ ~InRange(pagina + 1, args.max_paginas)
                              THEN Retornar(res, FALSE)
                              ELSE /\ resultados' = res
                                   /\ pagina' = pagina + 1
                                   /\ UNCHANGED <<pc, ti, dados, encontrados,
                                                  exit_code, erro>>
  /\ UNCHANGED <<args, has_fpdf, stdout_encoding, stdout_write,
                 desde, tribunal, warns, sinks,
                 movimentos, clas, retryvars, hits_pagina, pos>>

\* lines 389-394, after the last tribunal: deduplication, and the total is
\* printed (line 394; the run ends there when print raises)
Deduplicar ==
  /\ pc = "tribunais"
  /\ ti > Len(args.tribunais)
  /\ dados' = Dedup(dados)
  /\ \E cheio \in Cheio : \E e \in {ErroPrint(Texto394(Len(Dedup(dados))), cheio)} :
       IF e # ""
         THEN Terminar(e, 1, TRUE)
         ELSE /\ pc' = "export"
              /\ UNCHANGED <<exit_code, erro>>
  /\ UNCHANGED <<args, has_fpdf, stdout_encoding, stdout_write,
                 desde, ti, tribunal, pagina, resultados,
                 requests, encontrados, warns, sinks, movimentos, clas, retryvars,
                 hits_pagina, pos>>

\* an exporter call (or the printing of lines 424-425): what is written,
\* where, and the records it is given, which is `dados` in every call
Escrita(tipo, caminho) == [tipo |-> tipo, caminho |-> caminho, dados |-> dados]

\* lines 397-405: the calls of the file exporters, in order
ChamadasArquivos ==
  (IF Truthy(args.excel) THEN <<Escrita("excel", args.excel)>> ELSE <<>>)
    \o (IF Truthy(args.csv) THEN <<Escrita("csv", args.csv)>> ELSE <<>>)
    \o (IF Truthy(args.sqlite) THEN <<Escrita("sqlite", args.sqlite)>> ELSE <<>>)

\* lines 406-420: the call that writes the document: exportar_pdf when it
\* writes the PDF, else (fpdf2 is missing, or exportar_pdf raised and line
\* 411 caught it) exportar_txt at the PDF path with the extension .txt
ChamadaPdf(pdf_falha) ==
  IF Truthy(args.pdf) /\ ~args.no_pdf
    THEN IF has_fpdf /\ ~pdf_falha
           THEN <<Escrita("pdf", args.pdf)>>
           ELSE <<Escrita("txt", SplitExtRoot(args.pdf) \o <<46, 116, 120, 116>>)>>
    ELSE <<>>

\* lines 397-420: the exporter calls main makes when none of them raises
Chamadas(pdf_falha) == ChamadasArquivos \o ChamadaPdf(pdf_falha)

\* the [WARN] line printed before the fallback: line 412 when exportar_pdf
\* raised, line 417 when fpdf2 is not installed
AvisoPdf(pdf_falha) ==
  IF Truthy(args.pdf) /\ ~args.no_pdf /\ (~has_fpdf \/ pdf_falha)
    THEN <<[saida |-> "pdf", linha |-> IF has_fpdf THEN 412 ELSE 417]>>
    ELSE <<>>

\* lines 422-425: the JSON summary on stdout when no output option is given
SaidaStdout ==
  IF ~(Truthy(args.excel) \/ Truthy(args.csv) \/ Truthy(args.sqlite) \/ Truthy(args.pdf))
    THEN <<Escrita("stdout", <<>>)>>
    ELSE <<>>

\* the exception of an exporter that cannot write its file: sqlite3.connect
\* raises OperationalError (line 273); open() and the pandas writers raise
\* OSError or one of its subclasses (lines 261, 267, 302)
ErroSaida(tipo) == IF tipo = "sqlite" THEN "OperationalError" ELSE "OSError"

\* the text of the [WARN] line printed before the fallback: line 412
\* (without the text of the exception)
\* "[WARN] Falha ao gerar PDF: . Gerando relat\u00f3rio TXT como fallback..."
\* when exportar_pdf raised, line 417
\* "[WARN] fpdf2 n\u00e3o est\u00e1 instalado. Gerando relat\u00f3rio TXT no lugar do PDF..."
\* when fpdf2 is missing
TextoAviso ==
  IF has_fpdf
    THEN <<91, 87, 65, 82, 78, 93, 32, 70, 97, 108, 104, 97, 32, 97, 111, 32,
           103, 101, 114, 97, 114, 32, 80, 68, 70, 58, 32, 46, 32, 71, 101,
           114, 97, 110, 100, 111, 32, 114, 101, 108, 97, 116, 243, 114, 105,
           111, 32, 84, 88, 84, 32, 99, 111, 109, 111, 32, 102, 97, 108, 108,
           98, 97, 99, 107, 46, 46, 46>>
    ELSE <<91, 87, 65, 82, 78, 93, 32, 102, 112, 100, 102, 50, 32, 110, 227,
           111, 32, 101, 115, 116, 225, 32, 105, 110, 115, 116, 97, 108, 97,
           100, 111, 46, 32, 71, 101, 114, 97, 110, 100, 111, 32, 114, 101,
           108, 97, 116, 243, 114, 105, 111, 32, 84, 88, 84, 32, 110, 111, 32,
           108, 117, 103, 97, 114, 32, 100, 111, 32, 80, 68, 70, 46, 46, 46>>

\* what the exports come to from the k-th call of cs on, when the exporter
\* of the n-th call raises (n = 0: none does) and the device refuses the
\* bytes of stdout from the w-th print on (w = 0: it takes them all; the
\* warning before the k-th call is print 2k - 1, the path after it print
\* 2k and the summary the last one).  Before the fallback its warning is
\* printed, then the exporter is called, then its path is printed; the
\* first of these that raises ends the run, since nothing catches it (a
\* print of line 410 that raises is caught at line 411, and then the print
\* of line 412 raises, for the same encoding and by the same device).  A
\* call that returned has written; after the last call the summary of
\* lines 422-425 is printed when no output option is given, record by
\* record, and the first record that print cannot encode or write ends the
\* run.  impresso: the run has printed a line, in the exports or before
RECURSIVE Exportado(_, _, _, _, _)
Exportado(cs, aviso, n, w, k) ==
  IF k > Len(cs)
    THEN IF /\ SaidaStdout # <<>>
            /\ \E i \in 1..Len(dados) : ErroPrint(TextoRegistro(dados[i]), w # 0) # ""
           THEN [sinks |-> cs, warns |-> aviso,
                 erro |-> IF \E i \in 1..Len(dados) :
                               ErroPrint(TextoRegistro(dados[i]), FALSE) # ""
                            THEN "UnicodeEncodeError" ELSE "OSError",
                 exit_code |-> 1,
                 impresso |-> \/ ~args.selftest
                              \/ ErroPrint(TextoRegistro(dados[1]), FALSE) = ""]
           ELSE [sinks |-> cs \o SaidaStdout, warns |-> aviso, erro |-> "",
                 exit_code |-> 0,
                 impresso |-> \/ ~args.selftest
                              \/ cs # <<>>
                              \/ SaidaStdout # <<>> /\ dados # <<>>]
  ELSE IF cs[k].tipo = "txt" /\ ErroPrint(TextoAviso, w # 0 /\ w <= 2 * k - 1) # ""
    THEN [sinks |-> SubSeq(cs, 1, k - 1), warns |-> <<>>,
          erro |-> ErroPrint(TextoAviso, w # 0 /\ w <= 2 * k - 1), exit_code |-> 1,
          impresso |-> ~args.selftest \/ k > 1]
  ELSE IF k = n
    THEN [sinks |-> SubSeq(cs, 1, k - 1),
          warns |-> IF cs[k].tipo = "txt" THEN aviso ELSE <<>>,
          erro |-> ErroSaida(cs[k].tipo), exit_code |-> 1,
          impresso |-> ~args.selftest \/ k > 1 \/ cs[k].tipo = "txt"]
  ELSE IF ErroPrint(TextoGerado(cs[k].tipo, cs[k].caminho), w # 0 /\ w <= 2 * k) # ""
    THEN [sinks |-> SubSeq(cs, 1, k),
          warns |-> IF cs[k].tipo = "txt" THEN aviso ELSE <<>>,
          erro |-> IF cs[k].tipo = "pdf"
                     THEN ErroPrint(TextoAviso, w # 0 /\ w <= 2 * k)
                     ELSE ErroPrint(TextoGerado(cs[k].tipo, cs[k].caminho),
                                    w # 0 /\ w <= 2 * k),
          exit_code |-> 1,
          impresso |-> ~args.selftest \/ k > 1 \/ cs[k].tipo = "txt"]
  ELSE Exportado(cs, aviso, n, w, k + 1)

\* lines 396-425: the exports, each given dados, and the lines printed
\* about them.  exportar_pdf may raise, which line 411 catches; any other
\* exporter may raise too (a path that cannot be written) and so may a
\* print (a text stdout cannot encode, bytes its device refuses), and that
\* ends main with exit status 1; else main returns, exit status 0.  A
\* summary that stays in the buffer of stdout and is refused at the flush
\* at exit has reached no one
Exportar ==
  /\ pc = "export"
  /\ \E pdf_falha \in (IF Truthy(args.pdf) /\ ~args.no_pdf /\ has_fpdf
                         THEN BOOLEAN ELSE {FALSE}) :
       \E n \in 0..Len(Chamadas(pdf_falha)) : \E cheio \in Cheio :
         \E w \in (IF cheio THEN 1..(2 * Len(Chamadas(pdf_falha)) + 1) ELSE {0}) :
           /\ n > 0 => Chamadas(pdf_falha)[n].tipo # "pdf"
           /\ \E e \in {Exportado(Chamadas(pdf_falha), AvisoPdf(pdf_falha), n, w, 1)} :
                /\ sinks' = IF stdout_write = "flush_fails" /\ e.impresso
                              THEN SelectSeq(e.sinks, LAMBDA x : x.tipo # "stdout")
                              ELSE e.sinks
                /\ warns' = warns \o e.warns
                /\ Terminar(e.erro, e.exit_code, e.impresso)
  /\ UNCHANGED <<args, has_fpdf, stdout_encoding, stdout_write,
                 desde, ti, tribunal, pagina, resultados, dados,
                 requests, encontrados, movimentos, clas, retryvars,
                 hits_pagina, pos>>

Next ==
  \/ DesdeInvalida
  \/ DiasAtrasLevanta
  \/ DeterminarDesde
  \/ SelfTest
  \/ ArgsInvalidos
  \/ IniciarConsulta
  \/ ProximoTribunal
  \/ PaginaFalha
  \/ CorpoLevanta
  \/ PaginaVazia
  \/ PaginaComHits
  \/ Deduplicar
  \/ Exportar

Spec == Init /\ [][Next]_vars

---------------------------------------------------------------------------
(* Classifier harness: the classification of lines 212-233 applied to a    *)
(* movement log that grows and shrinks one movement at a time.             *)

MaxLog == 4

InsertAt(s, i, e) == SubSeq(s, 1, i - 1) \o <<e>> \o SubSeq(s, i, Len(s))

RemoveAt(s, i) == SubSeq(s, 1, i - 1) \o SubSeq(s, i + 1, Len(s))

InitClassify ==
  /\ movimentos = <<>>
  /\ clas = Classificar(<<>>)
  /\ pc = "classify"
  /\ args = None
  /\ has_fpdf = FALSE
  /\ stdout_encoding = "utf-8"
  /\ stdout_write = "ok"
  /\ desde = NoDate
  /\ ti = 0
  /\ tribunal = <<>>
  /\ pagina = 0
  /\ resultados = <<>>
  /\ dados = <<>>
  /\ requests = <<>>
  /\ encontrados = <<>>
  /\ warns = <<>>
  /\ sinks = <<>>
  /\ exit_code = -1
  /\ SemPedido
  /\ SemPagina

\* a movement is added at any position and the log is classified again
InserirMovimento ==
  /\ pc = "classify"
  /\ Len(movimentos) < MaxLog
  /\ \E i \in 1..(Len(movimentos) + 1), m \in MovPool :
       /\ movimentos' = InsertAt(movimentos, i, m)
       /\ clas' = Classificar(InsertAt(movimentos, i, m))
  /\ UNCHANGED <<runvars, retryvars, hitvars>>

\* a movement is removed and the log is classified again
RemoverMovimento ==
  /\ pc = "classify"
  /\ \E i \in 1..Len(movimentos) :
       /\ movimentos' = RemoveAt(movimentos, i)
       /\ clas' = Classificar(RemoveAt(movimentos, i))
  /\ UNCHANGED <<runvars, retryvars, hitvars>>

NextClassify == InserirMovimento \/ RemoverMovimento

SpecClassify == InitClassify /\ [][NextClassify]_vars

---------------------------------------------------------------------------
(* Hit harness: the loop `for p in hits` of lines 206-251 over one page    *)
(* whose hits may hold JSON null where the others hold a list or a string. *)

MaxHits == 3

\* case 0005, with a movement whose descricao is null
HitDescricaoNull ==
  [_source |->
    [ numeroProcesso |-> <<48, 48, 48, 53>>,
      movimentos     |-> <<MovPenhora, [dataHora |-> <<116, 53>>, descricao |-> None]>> ] ]

\* the hits a raw page is built from: with movements, without the key
\* movimentos, without _source, and the two with a null
HitsBrutos == {Hit2, Hit5, Hit6, HitMovimentosNull, HitDescricaoNull}

\* the pages of 1..n hits
PaginasBrutas(n) ==
  UNION { [1..k -> HitsBrutos] : k \in 1..n }

InitHits ==
  /\ hits_pagina \in PaginasBrutas(MaxHits)
  /\ pos = 0
  /\ erro = ""
  /\ SemPedido
  /\ pc = "hits"
  /\ args = None
  /\ has_fpdf = FALSE
  /\ stdout_encoding = "utf-8"
  /\ stdout_write = "ok"
  /\ desde = NoDate
  /\ ti = 1
  /\ tribunal = tjpe
  /\ pagina = 0
  /\ resultados = <<>>
  /\ dados = <<>>
  /\ requests = <<>>
  /\ encontrados = <<>>
  /\ warns = <<>>
  /\ sinks = <<>>
  /\ exit_code = -1
  /\ movimentos = <<>>
  /\ clas = Classificar(<<>>)

\* lines 206-251 for the next hit: it is skipped or its record is appended
ProcessarHit ==
  /\ pc = "hits"
  /\ pos < Len(hits_pagina)
  /\ ErroHit(hits_pagina[pos + 1], desde) = ""
  /\ LET src == Get(hits_pagina[pos + 1], "_source", <<>>)
     IN  resultados' = IF Filtrado(src, desde) THEN resultados
                       ELSE Append(resultados, Registro(src, tribunal))
  /\ pos' = pos + 1
  /\ UNCHANGED <<pc, args, has_fpdf, stdout_encoding, stdout_write,
                 desde, ti, tribunal, pagina, dados, requests,
                 encontrados, warns, sinks, exit_code, movimentos, clas,
                 retryvars, hits_pagina, erro>>

\* lines 207-251 raise on the next hit: nothing catches the exception (the
\* try of line 195 ends at line 198), so it leaves buscar_processos and
\* main, and the interpreter ends with status 1
HitLevanta ==
  /\ pc = "hits"
  /\ pos < Len(hits_pagina)
  /\ ErroHit(hits_pagina[pos + 1], desde) # ""
  /\ erro' = ErroHit(hits_pagina[pos + 1], desde)
  /\ pc' = "fim"
  /\ exit_code' = 1
  /\ UNCHANGED <<args, has_fpdf, stdout_encoding, stdout_write,
                 desde, ti, tribunal, pagina, resultados, dados,
                 requests, encontrados, warns, sinks, movimentos, clas,
                 retryvars, hits_pagina, pos>>

NextHits == ProcessarHit \/ HitLevanta

SpecHits == InitHits /\ [][NextHits]_vars

---------------------------------------------------------------------------
(* Retry harness: one session.post of line 196 through the adapter mounted *)
(* by create_session, attempt by attempt, with every outcome of each HTTP  *)
(* attempt.                                                                *)

\* what one HTTP attempt can come to: no connection, no (complete)
\* response, or a response with a status, with or without Retry-After
Resultados ==
  { [tipo |-> "connect", status |-> 0, retry_after |-> FALSE],
    [tipo |-> "read", status |-> 0, retry_after |-> FALSE] }
  \cup { [tipo |-> "status", status |-> st, retry_after |-> FALSE] :
           st \in {200, 404, 413} \cup status_forcelist }
  \cup { [tipo |-> "status", status |-> st, retry_after |-> TRUE] :
           st \in {413, 503} }

InitRetry ==
  /\ SemPedido
  /\ SemPagina
  /\ pc = "retry"
  /\ args = None
  /\ has_fpdf = FALSE
  /\ stdout_encoding = "utf-8"
  /\ stdout_write = "ok"
  /\ desde = NoDate
  /\ ti = 0
  /\ tribunal = <<>>
  /\ pagina = 0
  /\ resultados = <<>>
  /\ dados = <<>>
  /\ requests = <<>>
  /\ encontrados = <<>>
  /\ warns = <<>>
  /\ sinks = <<>>
  /\ exit_code = -1
  /\ movimentos = <<>>
  /\ clas = Classificar(<<>>)

\* an attempt fails to connect or to read: it is retried unless the
\* counters are exhausted, and then MaxRetryError is raised
TentativaErro ==
  /\ pc = "retry"
  /\ resposta = Pendente
  /\ \E o \in {x \in Resultados : x.tipo # "status"} :
       LET r == Increment(retry, o.tipo)
       IN  /\ tentativas' = tentativas + 1
           /\ IF IsExhausted(r)
                THEN /\ resposta' = [tipo |-> "MaxRetryError", status |-> 0]
                     /\ UNCHANGED <<retry, repetidas>>
                ELSE /\ retry' = r
                     /\ repetidas' = repetidas \cup {o}
                     /\ UNCHANGED resposta
  /\ UNCHANGED <<runvars, movimentos, clas, hitvars>>

\* an attempt gets a response: it is retried when is_retry says so and the
\* counters are not exhausted; else the response is what session.post
\* returns (raise_on_status=False, line 133)
TentativaResposta ==
  /\ pc = "retry"
  /\ resposta = Pendente
  /\ \E o \in {x \in Resultados : x.tipo = "status"} :
       LET r == Increment(retry, o.tipo)
       IN  /\ tentativas' = tentativas + 1
           /\ IF IsRetry(retry, o.status, o.retry_after) /\ ~IsExhausted(r)
                THEN /\ retry' = r
                     /\ repetidas' = repetidas \cup {o}
                     /\ UNCHANGED resposta
                ELSE /\ resposta' = [tipo |-> "resposta", status |-> o.status]
                     /\ UNCHANGED <<retry, repetidas>>
  /\ UNCHANGED <<runvars, movimentos, clas, hitvars>>

NextRetry == TentativaErro \/ TentativaResposta

SpecRetry == InitRetry /\ [][NextRetry]_vars

---------------------------------------------------------------------------
(* Properties of the run, lines 179-255 and 346-425 *)

\* positions in requests of the requests issued for the i-th tribunal
PedidosDe(i) == {k \in 1..Len(requests) : requests[k].ti = i}

\* the call of buscar_processos for the i-th tribunal has returned
Retornou(i) == i <= Len(encontrados)

Falhou(k) == requests[k].resultado \in Falhas

PaginaCheiaOk(k) ==
  requests[k].resultado = "ok" /\ Len(requests[k].hits) = page_size

\* the per-tribunal results joined in call order
RECURSIVE ConcatAte(_)
ConcatAte(n) ==
  IF n = 0 THEN <<>> ELSE ConcatAte(n - 1) \o encontrados[n]

Concatenado == ConcatAte(Len(encontrados))

\* the run is live (no --selftest) and has reached the exports
SaidaFinal == pc \in {"export", "fim"} /\ ~args.selftest /\ exit_code \in {-1, 0}

\* the (case_id, tribunal) pair of a record
Par(r) == <<r.cnj, r.tribunal>>

\* the call of buscar_processos for the i-th tribunal has ended: it has
\* returned, or an exception left it after a request and ended the run
Encerrou(i) == Retornou(i) \/ (pc = "fim" /\ PedidosDe(i) # {})

\* C1: with max_paginas = M >= 0, at most M requests are issued for a
\* tribunal, whatever comes back; and when the call has ended and every
\* request of it succeeded with a full page of 100 hits, exactly M were
\* issued
C1_PaginacaoLimitada ==
  args.max_paginas >= 0 =>
    \A i \in 1..Len(args.tribunais) :
      /\ Cardinality(PedidosDe(i)) <= args.max_paginas
      /\ (Encerrou(i) /\ \A k \in PedidosDe(i) : PaginaCheiaOk(k))
           => Cardinality(PedidosDe(i)) = args.max_paginas

\* C2: when the request for a page fails, the call returns to main in that
\* step with exactly the records accumulated so far (nothing is raised, the
\* run goes on), and no further request is ever issued for that tribunal
C2_FalhaEncerraTribunal ==
  /\ [][ ( /\ Len(requests') = Len(requests) + 1
           /\ requests'[Len(requests')].resultado \in Falhas )
         => ( /\ encontrados' = Append(encontrados, resultados)
              /\ pc' = "tribunais"
              /\ exit_code' = -1 ) ]_vars
  /\ [](\A k \in 1..Len(requests) :
          Falhou(k) => /\ Retornou(requests[k].ti)
                       /\ \A j \in PedidosDe(requests[k].ti) : j <= k)

\* a live run with valid arguments and at least one page per tribunal
LiveValido ==
  /\ ~args.selftest
  /\ Truthy(args.nome) /\ Truthy(args.cnpj) /\ args.tribunais # <<>>
  /\ Truthy(args.desde) => FromIsoFormat(args.desde) # NoDate
  /\ ErroDiasAtras = ""
  /\ args.max_paginas >= 1

PrimeiraPaginaFalhou(i) ==
  \E k \in PedidosDe(i) : requests[k].from = 0 /\ Falhou(k)

TodosConsultados == \A i \in 1..Len(args.tribunais) : PedidosDe(i) # {}

\* an upper bound of the steps the run still has to take: one step to enter
\* each call still to come and at most max_paginas page steps in it, then
\* the deduplication and the exports
Medida ==
  LET n == Len(args.tribunais)
      w == args.max_paginas + 1
  IN  CASE pc = "desde"     -> n * w + 4
        [] pc = "modo"      -> n * w + 3
        [] pc = "tribunais" -> (n - ti + 1) * w + 2
        [] pc = "pagina"    -> (n - ti) * w + 2 + (args.max_paginas - pagina)
        [] pc = "export"    -> 1
        [] OTHER            -> 0

\* C3: in a live run with max_paginas >= 1, every tribunal of the list gets
\* at least one request however many tribunals before it failed, and the
\* run goes through the deduplication to the exports: the run can always
\* take a step until it has ended, every step brings the end nearer, the
\* exports are entered only from the deduplication and the run ends only in
\* the exports, and at the end every tribunal was queried; a tribunal whose
\* first page fails contributes no record
C3_TodosOsTribunais ==
  /\ [](LiveValido => /\ pc # "fim" => ENABLED Next
                      /\ Medida >= 0
                      /\ pc = "fim" => TodosConsultados)
  /\ [][LiveValido => /\ Medida' < Medida
                      /\ pc' = "export" => (pc = "tribunais" /\ ti > Len(args.tribunais))
                      /\ pc' = "fim" => pc = "export"]_vars
  /\ [](\A i \in 1..Len(encontrados) :
          PrimeiraPaginaFalhou(i) => encontrados[i] = <<>>)

\* C4: what a live run hands to the exports has no two records with the same
\* (case_id, tribunal) pair
C4_SemDuplicados ==
  SaidaFinal =>
    \A a, b \in 1..Len(dados) : a # b => Par(dados[a]) # Par(dados[b])

\* a finished live run whose tribunals returned duplicates
C4_Witness ==
  /\ pc = "fim"
  /\ SaidaFinal
  /\ Len(dados) >= 2
  /\ Len(Concatenado) > Len(dados)

\* position in the sequence c of the first record with the pair of r
PrimeiraPosicao(c, r) ==
  CHOOSE i \in 1..Len(c) :
    /\ Par(c[i]) = Par(r)
    /\ \A j \in 1..(i - 1) : Par(c[j]) # Par(r)

\* C5: the final output is the concatenation of the per-tribunal results
\* without the records whose pair occurred earlier: every pair of the
\* concatenation survives, the survivor of a pair is its first occurrence,
\* unchanged, and the survivors are in the order of the concatenation
C5_PrimeiraOcorrenciaEstavel ==
  SaidaFinal =>
    LET c == Concatenado
    IN  /\ \A i \in 1..Len(c) :
             \E m \in 1..Len(dados) : Par(dados[m]) = Par(c[i])
        /\ \A m \in 1..Len(dados) :
             \E i \in 1..Len(c) : Par(c[i]) = Par(dados[m])
        /\ \A m \in 1..Len(dados) : dados[m] = c[PrimeiraPosicao(c, dados[m])]
        /\ \A m \in 1..(Len(dados) - 1) :
             PrimeiraPosicao(c, dados[m]) < PrimeiraPosicao(c, dados[m + 1])

\* a finished live run that kept one case id for two tribunals and dropped
\* a later record of a pair although its content differed from the first
C5_Witness ==
  /\ pc = "fim"
  /\ SaidaFinal
  /\ \E a, b \in 1..Len(dados) :
       dados[a].cnj = dados[b].cnj /\ dados[a].tribunal # dados[b].tribunal
  /\ \E i \in 1..Len(Concatenado) :
       \A m \in 1..Len(dados) : dados[m] # Concatenado[i]

---------------------------------------------------------------------------
(* Properties of the classification, lines 212-233 *)

Descricao(m) == Get(m, "descricao", <<>>)

\* the lower-cased description of m contains a term of the list
Casa(m, keywords) ==
  \E k \in DOMAIN keywords : Contains(keywords[k], Lower(Descricao(m)))

Decisoes == {i \in 1..Len(movimentos) : Casa(movimentos[i], KEYWORDS_DECISAO)}

PrazosIdx == {i \in 1..Len(movimentos) : Casa(movimentos[i], KEYWORDS_PRAZO)}

Execucoes == {i \in 1..Len(movimentos) : Casa(movimentos[i], KEYWORDS_EXECUCAO)}

Maximo(S) == CHOOSE i \in S : \A j \in S : j <= i

\* the k-th smallest element of S
Enesimo(S, k) == CHOOSE i \in S : Cardinality({j \in S : j <= i}) = k

\* C6: resumo_decisao is the description of the decision movement at the
\* highest position of the log, and empty when the log has no decision
C6_UltimaDecisao ==
  clas.resumo_decisao =
    IF Decisoes = {} THEN <<>> ELSE Descricao(movimentos[Maximo(Decisoes)])

\* the log [A (no match), B (decision), C (no match), D (decision)] with
\* D's description as the summary, which is not B's
C6_Witness ==
  /\ Len(movimentos) = 4
  /\ Decisoes = {2, 4}
  /\ Descricao(movimentos[2]) # Descricao(movimentos[4])
  /\ clas.resumo_decisao = Descricao(movimentos[4])

\* C7: prazos_relevantes holds one "timestamp: description" entry for every
\* deadline movement, in the order of the log (the k-th entry is that of the
\* k-th deadline movement), repeated entries included, and nothing else
C7_PrazosNaOrdem ==
  clas.prazos_relevantes =
    Join(<<10>>,
         [k \in 1..Cardinality(PrazosIdx) |->
            LET m == movimentos[Enesimo(PrazosIdx, k)]
            IN  Get(m, "dataHora", <<>>) \o <<58, 32>> \o Descricao(m)])

\* a log with the same deadline movement twice around another movement
C7_Witness ==
  /\ Cardinality(PrazosIdx) >= 3
  /\ \E i, j \in PrazosIdx : i + 1 < j /\ movimentos[i] = movimentos[j]
  /\ \E i \in 1..Len(movimentos) : i \notin PrazosIdx
  /\ clas.prazos_relevantes # <<>>

\* C8: fase_execucao is "Sim" exactly when some movement of the log matches
\* the execution list; adding a movement never turns "Sim" into another
\* value, adding a first execution movement turns "Nao" into "Sim", and
\* removing the only execution movement turns "Sim" into "Nao"
C8_FaseExecucao ==
  /\ [](clas.fase_execucao = (IF Execucoes # {} THEN Sim ELSE Nao))
  /\ [][ (Len(movimentos') = Len(movimentos) + 1 /\ clas.fase_execucao = Sim)
           => clas'.fase_execucao = Sim ]_vars
  /\ [][ (Len(movimentos') = Len(movimentos) + 1
            /\ Execucoes = {} /\ Execucoes' # {})
           => (clas.fase_execucao = Nao /\ clas'.fase_execucao = Sim) ]_vars
  /\ [][ (Len(movimentos') = Len(movimentos) - 1
            /\ Cardinality(Execucoes) = 1 /\ Execucoes' = {})
           => (clas.fase_execucao = Sim /\ clas'.fase_execucao = Nao) ]_vars

\* a log whose only execution movement is neither first nor last
C8_Witness ==
  /\ Len(movimentos) >= 3
  /\ Cardinality(Execucoes) = 1
  /\ 1 \notin Execucoes
  /\ Len(movimentos) \notin Execucoes
  /\ clas.fase_execucao = Sim

---------------------------------------------------------------------------
(* Properties of the date filter and of the command line *)

\* the hits of the ok pages of the i-th tribunal, in request order
RECURSIVE HitsAte(_, _)
HitsAte(i, k) ==
  IF k = 0 THEN <<>>
  ELSE HitsAte(i, k - 1) \o (IF requests[k].ti = i THEN requests[k].hits ELSE <<>>)

\* the hit passes the date filter of the run
Retido(h) ==
  LET d == parse_date(Get(Get(h, "_source", <<>>), "dataDistribuicao", <<>>))
  IN  desde = NoDate \/ d = NoDate \/ d >= desde

\* C9: the result of a tribunal has one record for each hit of its pages
\* that passes the filter (no filter set, or no usable date, or a date not
\* before the filter date) and none for the others: the case ids and dates
\* of the result are those of the retained hits, in order
C9_FiltroDeData ==
  [](\A i \in 1..Len(encontrados) :
       LET retidos == SelectSeq(HitsAte(i, Len(requests)), Retido)
       IN  /\ Len(encontrados[i]) = Len(retidos)
           /\ \A m \in 1..Len(retidos) :
                LET src == Get(retidos[m], "_source", <<>>)
                IN  /\ encontrados[i][m].cnj = Get(src, "numeroProcesso", None)
                    /\ encontrados[i][m].dt_distribuicao =
                         Get(src, "dataDistribuicao", None))

\* a tribunal queried with a filter date whose pages held a hit of exactly
\* that date (kept), an older hit (dropped) and hits with an unusable or a
\* missing date (kept)
C9_Witness ==
  \E i \in 1..Len(encontrados) :
    LET hs == HitsAte(i, Len(requests))
    IN  /\ desde # NoDate
        /\ \A h \in {Hit1, Hit2, Hit4, Hit5} :
             \E a \in 1..Len(hs) : ToString(hs[a]) = ToString(h)
        /\ parse_date(Hit1._source.dataDistribuicao) = desde
        /\ parse_date(Hit2._source.dataDistribuicao) < desde
        /\ \E m \in 1..Len(encontrados[i]) :
             encontrados[i][m].cnj = Hit1._source.numeroProcesso
        /\ \E m \in 1..Len(encontrados[i]) :
             encontrados[i][m].dt_distribuicao = Hit4._source.dataDistribuicao
        /\ \E m \in 1..Len(encontrados[i]) :
             /\ encontrados[i][m].cnj = Hit5._source.numeroProcesso
             /\ encontrados[i][m].dt_distribuicao = None
        /\ \A m \in 1..Len(encontrados[i]) :
             encontrados[i][m].dt_distribuicao # Hit2._source.dataDistribuicao

\* s is a date written YYYY-MM-DD
DataYMD(s) ==
  /\ Len(s) = 10
  /\ s[5] = 45 /\ s[8] = 45
  /\ \A i \in {1, 2, 3, 4, 6, 7, 9, 10} : IsDigit(s[i])
  /\ LET y == Num(SubSeq(s, 1, 4))
         m == Num(SubSeq(s, 6, 7))
         d == Num(SubSeq(s, 9, 10))
     IN  y >= 1 /\ m >= 1 /\ m <= 12 /\ d >= 1 /\ d <= DaysInMonth(y, m)

\* the command line is invalid: --desde is given and is no YYYY-MM-DD date,
\* or, without --selftest, the name, the document or the tribunals are missing
ConfigInvalida ==
  \/ args.desde # None /\ ~DataYMD(args.desde)
  \/ ~args.selftest /\ (~Truthy(args.nome) \/ ~Truthy(args.cnpj) \/ args.tribunais = <<>>)

\* C10: a run with an invalid command line issues no request and writes no
\* output, and when it has ended its exit status is not zero
C10_ConfigInvalidaNaoConsulta ==
  ConfigInvalida =>
    /\ requests = <<>>
    /\ sinks = <<>>
    /\ pc = "fim" => exit_code # 0

---------------------------------------------------------------------------
(* Properties of the exports, lines 396-425 *)

\* the run has ended normally (main returned)
FimNormal == pc = "fim" /\ exit_code = 0

\* a PDF is asked for and not disabled
PdfPedido == Truthy(args.pdf) /\ ~args.no_pdf

\* the sink entries of one kind
SaidasDoTipo(tipo) == {k \in 1..Len(sinks) : sinks[k].tipo = tipo}

\* the warnings of the PDF export
AvisosPdf == {k \in 1..Len(warns) : "saida" \in DOMAIN warns[k]}

\* the run has ended after its exports came to the document: main
\* returned, or an exporter raised after every file exporter had written
NoPassoDoPdf ==
  /\ pc = "fim"
  /\ exit_code = 0 \/ erro \in {ErroSaida("txt"), ErroSaida("sqlite")}
  /\ Len(sinks) >= Len(ChamadasArquivos)

\* C11: in a run that asked for a PDF (not disabled) and has ended after
\* its exports came to the document, the end is normal and either the PDF
\* was written, or (always so when fpdf2 is missing) the text report was
\* written instead, at the PDF path with its extension replaced by .txt,
\* with the very records of the run, after a warning
C11_PdfFallback ==
  /\ (pc = "export" /\ PdfPedido) => ENABLED Exportar
  /\ (PdfPedido /\ NoPassoDoPdf) =>
       /\ exit_code = 0
       /\ Cardinality(SaidasDoTipo("pdf")) + Cardinality(SaidasDoTipo("txt")) = 1
       /\ ~has_fpdf => SaidasDoTipo("txt") # {}
       /\ \A k \in SaidasDoTipo("pdf") :
            /\ has_fpdf
            /\ sinks[k].caminho = args.pdf
            /\ AvisosPdf = {}
       /\ \A k \in SaidasDoTipo("txt") :
            /\ sinks[k].caminho = SplitExtRoot(args.pdf) \o <<46, 116, 120, 116>>
            /\ sinks[k].dados = dados
            /\ Cardinality(AvisosPdf) = 1

\* C12: with --selftest no request is ever issued, whatever name, document,
\* tribunals and date filter are given, and what reaches the exports, and
\* every exporter that writes, is gerar_dados_teste as it is
C12_SelftestOffline ==
  args.selftest =>
    /\ requests = <<>>
    /\ (pc \in {"export", "fim"} /\ exit_code \in {-1, 0}) => dados = gerar_dados_teste
    /\ \A k \in 1..Len(sinks) : sinks[k].dados = gerar_dados_teste

\* a finished --selftest run given a name, a document, a tribunal and a
\* filter date later than both synthetic records, which were written all
\* the same
C12_Witness ==
  /\ args.selftest
  /\ FimNormal
  /\ Truthy(args.nome) /\ Truthy(args.cnpj) /\ args.tribunais # <<>>
  /\ desde # NoDate
  /\ \A i \in 1..Len(gerar_dados_teste) :
       parse_date(gerar_dados_teste[i].dt_distribuicao) < desde
  /\ \E k \in 1..Len(sinks) : sinks[k].tipo = "csv" /\ sinks[k].dados = gerar_dados_teste

---------------------------------------------------------------------------
(* Properties of the pagination, lines 182-255 *)

\* the request k came back with a page of fewer than page_size hits
PaginaCurtaOk(k) ==
  requests[k].resultado = "ok" /\ Len(requests[k].hits) < page_size

\* C13: a request that comes back with no hit or with fewer than 100 hits
\* is the last of its tribunal: the call returns in that step, with the
\* records it had followed by one record for each hit of the page that
\* passes the date filter (none for an empty page)
C13_PaginaCurtaEncerra ==
  /\ [](\A k \in 1..Len(requests) :
          PaginaCurtaOk(k) => /\ Retornou(requests[k].ti)
                              /\ \A j \in PedidosDe(requests[k].ti) : j <= k)
  /\ [][ ( /\ Len(requests') = Len(requests) + 1
           /\ requests'[Len(requests')].resultado = "ok"
           /\ Len(requests'[Len(requests')].hits) < page_size )
         => LET hits == requests'[Len(requests')].hits
                novo == encontrados'[Len(encontrados')]
                retidos == SelectSeq(hits, Retido)
            IN  /\ Len(encontrados') = Len(encontrados) + 1
                /\ pc' = "tribunais"
                /\ SubSeq(novo, 1, Len(resultados)) = resultados
                /\ Len(novo) = Len(resultados) + Len(retidos)
                /\ \A m \in 1..Len(retidos) :
                     novo[Len(resultados) + m].cnj =
                       Get(Get(retidos[m], "_source", <<>>), "numeroProcesso", None)
                /\ hits = <<>> => novo = resultados ]_vars

\* the k-th request of the run is the n-th (from 0) of its tribunal
Ordem(k) == Cardinality({j \in PedidosDe(requests[k].ti) : j < k})

\* C14: the requests of a run come tribunal by tribunal in list order; the
\* n-th request of a tribunal (n = 0, 1, ...) asks for 100 hits from offset
\* 100 * n; and a request is issued only when every page already fetched
\* for its tribunal was a full page whose hits have all been processed (the
\* accumulator holds one record for each of them that passes the filter)
C14_PedidosEmSequencia ==
  /\ [](\A k \in 1..Len(requests) :
          /\ requests[k].ti \in 1..Len(args.tribunais)
          /\ k > 1 => requests[k - 1].ti <= requests[k].ti
          /\ requests[k].size = page_size
          /\ requests[k].from = page_size * Ordem(k))
  /\ [][ Len(requests') # Len(requests)
         => /\ SubSeq(requests', 1, Len(requests)) = requests
            /\ Len(requests') = Len(requests) + 1
            /\ requests'[Len(requests')].ti = ti
            /\ ti = Len(encontrados) + 1
            /\ \A k \in PedidosDe(ti) : PaginaCheiaOk(k)
            /\ Len(resultados) =
                 Len(SelectSeq(HitsAte(ti, Len(requests)), Retido)) ]_vars

\* a finished run over two tribunals with two requests each: offsets 0,
\* 100, 0, 100 in that order
C14_Witness ==
  /\ FimNormal
  /\ Len(requests) = 4
  /\ requests[1].ti = 1 /\ requests[1].from = 0
  /\ requests[2].ti = 1 /\ requests[2].from = 100
  /\ requests[3].ti = 2 /\ requests[3].from = 0
  /\ requests[4].ti = 2 /\ requests[4].from = 100
  /\ requests[2].hits # <<>>

---------------------------------------------------------------------------
(* Properties of the order of the records, lines 206-251 and 383-388 *)

\* str.lower().strip() of the i-th tribunal of the list, then upper()
TribunalDe(i) == Upper(Strip(Lower(args.tribunais[i])))

\* C15: between two calls, and so just before the deduplication, dados is
\* the results of the tribunals queried so far joined in list order; the
\* result of a tribunal follows its pages in ascending offset and each page
\* in upstream order: the raw hit h of the page at offset f is the
\* (f + h)-th hit of the tribunal, and the m-th record is that of the m-th
\* of these hits that passes the filter (its case id, date and tribunal)
C15_OrdemDosRegistros ==
  [](( pc = "tribunais" /\ ~args.selftest ) =>
       /\ dados = Concatenado
       /\ \A i \in 1..Len(encontrados) :
            LET todos == HitsAte(i, Len(requests))
                retidos == SelectSeq(todos, Retido)
            IN  /\ \A k \in PedidosDe(i) : \A h \in 1..Len(requests[k].hits) :
                     todos[requests[k].from + h] = requests[k].hits[h]
                /\ Len(encontrados[i]) = Len(retidos)
                /\ \A m \in 1..Len(retidos) :
                     LET src == Get(retidos[m], "_source", <<>>)
                         r == encontrados[i][m]
                     IN  /\ r.cnj = Get(src, "numeroProcesso", None)
                         /\ r.dt_distribuicao = Get(src, "dataDistribuicao", None)
                         /\ r.tribunal = TribunalDe(i))

\* just before the deduplication of a run over tjpe and tjba with a filter
\* date: tjpe gave a full page alternating a kept and a dropped hit and
\* then a short page, tjba gave records too
C15_Witness ==
  /\ pc = "tribunais"
  /\ ti > Len(args.tribunais)
  /\ Len(args.tribunais) = 2
  /\ TribunalDe(1) # TribunalDe(2)
  /\ desde # NoDate
  /\ Cardinality(PedidosDe(1)) = 2
  /\ \E k \in PedidosDe(1) :
       /\ requests[k].from = 0
       /\ requests[k].hits[1] = Hit1 /\ requests[k].hits[2] = Hit2
  /\ \E k \in PedidosDe(1) : requests[k].from = page_size /\ Len(requests[k].hits) = 3
  /\ Len(encontrados[1]) = 53
  /\ encontrados[2] # <<>>
  /\ dados[54].tribunal = TribunalDe(2)

---------------------------------------------------------------------------
(* Properties of the retry policy, lines 104-138 and 195-198 *)

\* C16: one page search makes at most 5 HTTP attempts, and only a response
\* with status 429, 500, 502, 503 or 504, a read failure or a connect
\* failure is followed by a further attempt
C16_NoMaximoCincoTentativas ==
  /\ tentativas <= 5
  /\ \A o \in repetidas :
       \/ o.tipo \in {"connect", "read"}
       \/ o.tipo = "status" /\ o.status \in {429, 500, 502, 503, 504}

---------------------------------------------------------------------------
(* Properties of the per-hit loop on raw pages, lines 206-251 *)

\* the movement list of the hit is not there: no key, or null
SemMovimentos(p) ==
  LET src == Get(p, "_source", <<>>)
  IN  "movimentos" \notin DOMAIN src \/ IsNone(src.movimentos)

\* C17: the per-hit loop raises on no hit, every hit gone through has its
\* record, and the record of a hit whose movement list is missing or null
\* has qtd_movimentos 0, no deadline, no decision summary and "Nao"
C17_ClassificacaoNuncaFalha ==
  /\ erro = ""
  /\ exit_code = -1
  /\ Len(resultados) = pos
  /\ \A i \in 1..pos :
       SemMovimentos(hits_pagina[i]) =>
         /\ resultados[i].qtd_movimentos = 0
         /\ resultados[i].prazos_relevantes = <<>>
         /\ resultados[i].resumo_decisao = <<>>
         /\ resultados[i].fase_execucao = Nao

---------------------------------------------------------------------------
(* Properties of the tribunal codes, lines 383-393 and 234-236 *)

\* the i-th code of the list, lower-cased and without surrounding whitespace
CodigoDe(i) == Strip(Lower(args.tribunais[i]))

\* the case ids of the records the i-th call returned
CasosDe(i) == { encontrados[i][m].cnj : m \in 1..Len(encontrados[i]) }

\* how many records of r have case id c and tribunal t
Quantos(r, c, t) ==
  Cardinality({ n \in 1..Len(r) : r[n].cnj = c /\ r[n].tribunal = t })

\* C18: every request goes to the endpoint of the lower-cased, trimmed code
\* of its list entry; every record of a call has the upper-case of that code
\* as tribunal; so the records of two entries that differ only in case or
\* surrounding whitespace have the same tribunal, and once the
\* deduplication has run a case returned for both is in dados exactly once
C18_TribunalNormalizado ==
  []( ~args.selftest =>
       /\ \A k \in 1..Len(requests) :
            /\ requests[k].endpoint = CodigoDe(requests[k].ti)
            /\ Lower(requests[k].endpoint) = requests[k].endpoint
            /\ Strip(requests[k].endpoint) = requests[k].endpoint
       /\ \A i \in 1..Len(encontrados) :
            LET t == Upper(CodigoDe(i))
            IN  \A m \in 1..Len(encontrados[i]) : encontrados[i][m].tribunal = t
       /\ \A i, j \in 1..Len(encontrados) :
            (i < j /\ CodigoDe(i) = CodigoDe(j)) =>
              /\ \A m \in 1..Len(encontrados[i]) : \A n \in 1..Len(encontrados[j]) :
                   encontrados[i][m].tribunal = encontrados[j][n].tribunal
              /\ pc \in {"export", "fim"} =>
                   \A c \in CasosDe(i) \cap CasosDe(j) :
                     Quantos(dados, c, Upper(CodigoDe(i))) = 1 )

\* the end of a run over "tjpe" and "TJPE" between blanks: both calls returned records,
\* a case among them was returned by both, and dados holds it once
C18_Witness ==
  /\ pc = "fim"
  /\ exit_code = 0
  /\ ~args.selftest
  /\ args.tribunais = <<tjpe, TJPE_espacos>>
  /\ Len(encontrados) = 2
  /\ requests # <<>>
  /\ requests[Len(requests)].endpoint = tjpe
  /\ requests[Len(requests)].ti = 2
  /\ \E c \in CasosDe(1) \cap CasosDe(2) :
       /\ Quantos(encontrados[1] \o encontrados[2], c, Upper(tjpe)) > 1
       /\ Quantos(dados, c, Upper(tjpe)) = 1

---------------------------------------------------------------------------
(* Properties of the decision to go on, lines 202-211 and 252-254 *)

\* the request k came back with page_size hits and the ceiling has room for
\* one more page of its tribunal: nothing here looks at the filter date or
\* at the records made from the hits
PedeOutra(k) ==
  /\ requests[k].resultado = "ok"
  /\ Len(requests[k].hits) = page_size
  /\ (requests[k].from \div page_size) + 1 < args.max_paginas

\* the call goes on to another page after the request r when its filter
\* date is `since`: the request succeeded, the loop over its hits raised
\* nothing, the page was full and the range lasts
Continua(r, since) ==
  /\ r.resultado = "ok"
  /\ ErroHits(r.hits, since) = ""
  /\ ~PaginaCurta(r.hits)
  /\ InRange((r.from \div page_size) + 1, args.max_paginas)

\* the requests of the i-th tribunal that a call without a filter date
\* issues when it is given the same responses
SemFiltro(i) ==
  {k \in PedidosDe(i) :
     \A j \in PedidosDe(i) : j < k => Continua(requests[j], NoDate)}

\* C19: whether one more page is requested is settled by the request that
\* just came back alone (no failure, page_size raw hits, room under the
\* ceiling), whatever the filter date and however many of the hits became
\* records: the step that issues a request leaves the call in its loop
\* exactly in that case, such a request is followed by the request of the
\* next offset of the same tribunal, and the requests issued for a tribunal
\* are those that are issued for it without a filter date
C19_ProximaPaginaSoPelosHits ==
  /\ [](\A i \in 1..Len(args.tribunais) : PedidosDe(i) = SemFiltro(i))
  /\ [](~args.selftest =>
          \A k \in 1..Len(requests) :
            PedeOutra(k) =>
              IF k = Len(requests)
                THEN pc = "pagina" /\ ti = requests[k].ti
                     /\ pagina * page_size = requests[k].from + page_size
                ELSE /\ requests[k + 1].ti = requests[k].ti
                     /\ requests[k + 1].from = requests[k].from + page_size)
  /\ [][ Len(requests') = Len(requests) + 1 =>
           ( (pc' = "pagina" /\ ti' = ti) <=>
               ( /\ requests'[Len(requests')].resultado = "ok"
                 /\ Len(requests'[Len(requests')].hits) = page_size
                 /\ (requests'[Len(requests')].from \div page_size) + 1
                      < args.max_paginas ) ) ]_vars

---------------------------------------------------------------------------
(* Properties of the delivery of the records, lines 396-425 *)

\* C20: a run that has ended normally has given its records to at least
\* one output, a file or the JSON summary on standard output, whatever the
\* output options
C20_SempreHaSaida ==
  FimNormal => \E k \in 1..Len(sinks) : sinks[k].dados = dados

===========================================================================
